---- MODULE Spec2Model ----
(***************************************************************************)
(* A model of darca_file_utils: DirectoryUtils (directory_utils.py),       *)
(* FileUtils (file_utils.py) and YamlUtils (yaml_utils.py) acting on a     *)
(* POSIX filesystem.  The filesystem is a tree of directories and regular  *)
(* files below the working directory; every node has content, mode bits    *)
(* and an owner.  The host primitives the library calls (os.makedirs,      *)
(* os.rename, shutil.copytree, open, ...) are operators on that tree; each *)
(* library function is an operator built from them exactly as its code     *)
(* calls them, and an action that applies it.                              *)
(***************************************************************************)
EXTENDS Integers, Sequences, FiniteSets, TLC

VARIABLES
    fs,     \* the filesystem: a function from the paths present to nodes
    pre,    \* the filesystem as it was when the last call started
    last,   \* the last call: operation, arguments, result
    prev,   \* the call before the last
    steps,  \* calls made so far
    host,   \* the process and host: privilege, locale encoding, scan order
    calls   \* the call of each of two concurrent callers, and how far it is

vars == <<fs, pre, last, prev, steps, host, calls>>

----------------------------------------------------------------------------
(* Bounds *)

MaxDepth == 3      \* longest path, in segments
MaxOps == 1        \* calls per behaviour
MaxLen == 3        \* longest content, in characters or bytes

Names == {"a", "b"}

----------------------------------------------------------------------------
(* Paths.  A path is the sequence of its segments relative to the working  *)
(* directory; <<>> is the empty string "".                                 *)

Root == <<>>

PathsUpTo(n) == UNION {[1..k -> Names] : k \in 1..n}

Paths == PathsUpTo(MaxDepth)

\* os.path.dirname
dirname(p) == IF p = <<>> THEN <<>> ELSE SubSeq(p, 1, Len(p) - 1)

\* os.path.basename
basename(p) == p[Len(p)]

\* os.path.join(root, name)
join(p, name) == Append(p, name)

IsPrefix(p, q) == Len(p) <= Len(q) /\ SubSeq(q, 1, Len(p)) = p

\* os.path.relpath(full, start) for full below start
relpath(full, start) == SubSeq(full, Len(start) + 1, Len(full))

----------------------------------------------------------------------------
(* Nodes, users and access rights *)

\* an optional argument: None or Some(v)
None == <<>>

Some(v) == <<v>>

Octal(u, g, o) == (u * 64) + (g * 8) + o

Umask == Octal(0, 2, 2)

\* the mode os.makedirs gives a new directory: 0o777 & ~umask
DefaultDirMode == Octal(7, 7, 7) - Umask

\* the mode open() gives a new file: 0o666 & ~umask
DefaultFileMode == Octal(6, 6, 6) - Umask

KnownUsers == {"root", "me", "other"}

\* the effective user of the calling process
Self == IF host.privileged THEN "root" ELSE "me"

DirNode(mode, owner) ==
    [kind |-> "dir", data |-> <<>>, mode |-> mode, owner |-> owner]

FileNode(data, mode, owner) ==
    [kind |-> "file", data |-> data, mode |-> mode, owner |-> owner]

\* the working directory itself
RootNode == DirNode(DefaultDirMode, Self)

Has(f, p) == p = Root \/ p \in DOMAIN f

NodeAt(f, p) == IF p = Root THEN RootNode ELSE f[p]

IsDirNode(f, p) == Has(f, p) /\ NodeAt(f, p).kind = "dir"

IsFileNode(f, p) == Has(f, p) /\ NodeAt(f, p).kind = "file"

BitOf(right) == CASE right = "r" -> 4 [] right = "w" -> 2 [] right = "x" -> 1

\* POSIX discretionary access: the superuser passes, the owner is judged by
\* the owner bits, everybody else by the other bits
Access(n, right) ==
    \/ host.privileged
    \/ LET triad == IF n.owner = Self THEN (n.mode \div 64) % 8 ELSE n.mode % 8
       IN  (triad \div BitOf(right)) % 2 = 1

\* path resolution up to the parent of p: "ok" or the error of the first
\* ancestor that cannot be passed
RECURSIVE WalkFrom(_, _, _)
WalkFrom(f, p, i) ==
    IF i >= Len(p) THEN "ok"
    ELSE LET a == SubSeq(p, 1, i)
         IN  IF ~Has(f, a) THEN "FileNotFoundError"
             ELSE IF f[a].kind # "dir" THEN "NotADirectoryError"
             ELSE IF ~Access(f[a], "x") THEN "PermissionError"
             ELSE WalkFrom(f, p, i + 1)

Walk(f, p) == IF p = <<>> THEN "FileNotFoundError" ELSE WalkFrom(f, p, 1)

\* os.stat succeeds
StatOk(f, p) == Walk(f, p) = "ok" /\ Has(f, p)

\* os.path.exists / os.path.isdir / os.path.isfile: False on any stat error
exists(f, p) == StatOk(f, p)
isdir(f, p) == StatOk(f, p) /\ f[p].kind = "dir"
isfile(f, p) == StatOk(f, p) /\ f[p].kind = "file"

\* the process may add or remove entries of directory d
MayModify(f, d) == Access(NodeAt(f, d), "w") /\ Access(NodeAt(f, d), "x")

\* (functions are built with :> and @@ so that they are explicit values)
Put(f, p, n) == (p :> n) @@ f

Drop(f, gone) == [q \in DOMAIN f \ gone |-> f[q]] @@ <<>>

EmptyFS == [q \in {} |-> None]

Children(f, d) == {q \in DOMAIN f : Len(q) = Len(d) + 1 /\ IsPrefix(d, q)}

Subtree(f, d) == {q \in DOMAIN f : IsPrefix(d, q)}

----------------------------------------------------------------------------
(* Host primitives.  Each returns [fs, err]: the filesystem afterwards and *)
(* "ok" or the name of the exception the Python call raises.               *)

Done(f) == [fs |-> f, err |-> "ok"]

Fail(f, e) == [fs |-> f, err |-> e]

\* os.mkdir(p)
mkdir(f, p) ==
    IF Walk(f, p) # "ok" THEN Fail(f, Walk(f, p))
    ELSE IF Has(f, p) THEN Fail(f, "FileExistsError")
    ELSE IF ~MayModify(f, dirname(p)) THEN Fail(f, "PermissionError")
    ELSE Done(Put(f, p, DirNode(DefaultDirMode, Self)))

\* os.makedirs(name, exist_ok): creates the missing ancestors first; a
\* FileExistsError of an ancestor is swallowed, every other error leaves the
\* segments created so far in place
RECURSIVE makedirs(_, _, _)
makedirs(f, name, exist_ok) ==
    LET Made(made) ==
            IF made.err # "ok" /\ exist_ok /\ isdir(made.fs, name)
            THEN Done(made.fs)
            ELSE made
        Up(up) ==
            IF up.err \notin {"ok", "FileExistsError"} THEN up
            ELSE Made(mkdir(up.fs, name))
    IN  IF dirname(name) # <<>> /\ ~exists(f, dirname(name))
        THEN Up(makedirs(f, dirname(name), exist_ok))
        ELSE Up(Done(f))

\* os.chmod(p, mode)
chmod(f, p, mode) ==
    IF Walk(f, p) # "ok" THEN Fail(f, Walk(f, p))
    ELSE IF ~Has(f, p) THEN Fail(f, "FileNotFoundError")
    ELSE IF ~host.privileged /\ f[p].owner # Self THEN Fail(f, "PermissionError")
    ELSE Done(Put(f, p, [f[p] EXCEPT !.mode = mode % (Octal(7, 7, 7) + 1)]))

\* pwd.getpwnam(user) finds the user
getpwnam(user) == user \in KnownUsers

\* os.chown(p, uid, gid) with the uid and gid of user
chown(f, p, user) ==
    IF Walk(f, p) # "ok" THEN Fail(f, Walk(f, p))
    ELSE IF ~Has(f, p) THEN Fail(f, "FileNotFoundError")
    ELSE IF ~host.privileged /\ (f[p].owner # Self \/ user # Self)
         THEN Fail(f, "PermissionError")
    ELSE Done(Put(f, p, [f[p] EXCEPT !.owner = user]))

\* the optional chmod and chown both create_directory and write_file apply
ApplyModeAndOwner(f, p, permissions, user) ==
    LET Owned(moded) ==
            IF moded.err # "ok" THEN moded
            ELSE IF user = None THEN moded
            ELSE IF ~getpwnam(user[1]) THEN Fail(moded.fs, "KeyError")
            ELSE chown(moded.fs, p, user[1])
    IN  IF permissions # None THEN Owned(chmod(f, p, permissions[1]))
        ELSE Owned(Done(f))

----------------------------------------------------------------------------
(* Results of the library's functions: [fs, res], res a return value or a  *)
(* raised exception with its error code and the keys of its metadata.      *)
(* A Python value is a record whose one field names its type.              *)

NoValue == [none |-> TRUE]

Bool(b) == [bool |-> b]

True == Bool(TRUE)

False == Bool(FALSE)

List(items) == [list |-> items]

Return(f, v) ==
    [fs |-> f,
     res |-> [ok |-> TRUE, val |-> v, exc |-> "none", code |-> "none",
              meta |-> {}, prim |-> "none"]]

Raise(f, exc, code, meta) ==
    [fs |-> f,
     res |-> [ok |-> FALSE, val |-> NoValue, exc |-> exc, code |-> code,
              meta |-> meta, prim |-> "none"]]

\* the call got to its host primitive, and this is how it ended: prim names
\* the primitive a call handed its mutation to, "none" when it ended before
Invoked(primitive, out) == [out EXCEPT !.res.prim = primitive]

----------------------------------------------------------------------------
(* Content.  A str is a sequence of code points, a bytes object a sequence *)
(* of byte values; a file holds bytes.                                     *)

Str(cps) == [str |-> cps]

Bytes(bs) == [bytes |-> bs]

IsStr(v) == DOMAIN v = {"str"}

IsBytes(v) == DOMAIN v = {"bytes"}

LF == 10

CR == 13

\* os.linesep of a POSIX host (the library imports pwd, so the host is POSIX)
linesep == <<LF>>

RECURSIVE Concat(_)
Concat(ss) == IF ss = <<>> THEN <<>> ELSE Head(ss) \o Concat(Tail(ss))

\* the UTF-8 encoding of one code point
Utf8Of(c) ==
    IF c < 128 THEN <<c>>
    ELSE IF c < 2048 THEN <<192 + (c \div 64), 128 + (c % 64)>>
    ELSE IF c < 65536
         THEN <<224 + (c \div 4096), 128 + ((c \div 64) % 64), 128 + (c % 64)>>
    ELSE <<240 + (c \div 262144), 128 + ((c \div 4096) % 64),
           128 + ((c \div 64) % 64), 128 + (c % 64)>>

\* str.encode("utf-8")
utf8_encode(cps) == Concat([i \in 1..Len(cps) |-> Utf8Of(cps[i])])

\* the number of bytes a UTF-8 sequence starting with byte b has; 0: b cannot
\* start a sequence
Utf8Width(b) ==
    IF b < 128 THEN 1
    ELSE IF b >= 194 /\ b <= 223 THEN 2
    ELSE IF b >= 224 /\ b <= 239 THEN 3
    ELSE IF b >= 240 /\ b <= 244 THEN 4
    ELSE 0

IsCont(b) == b >= 128 /\ b <= 191

\* the code point of the well-formed sequence of w bytes at the head of bs,
\* or -1
Utf8Head(bs, w) ==
    IF w = 0 \/ Len(bs) < w THEN -1
    ELSE IF \E i \in 2..w : ~IsCont(bs[i]) THEN -1
    ELSE LET v == CASE w = 1 -> bs[1]
                    [] w = 2 -> ((bs[1] - 192) * 64) + (bs[2] - 128)
                    [] w = 3 -> ((bs[1] - 224) * 4096) + ((bs[2] - 128) * 64)
                                + (bs[3] - 128)
                    [] w = 4 -> ((bs[1] - 240) * 262144) + ((bs[2] - 128) * 4096)
                                + ((bs[3] - 128) * 64) + (bs[4] - 128)
         IN  IF \/ (w = 3 /\ v < 2048)
                \/ (w = 4 /\ v < 65536)
                \/ (v >= 55296 /\ v <= 57343)
                \/ v > 1114111
             THEN -1 ELSE v

\* bytes.decode("utf-8"), strict: [ok, data]
RECURSIVE utf8_decode(_)
utf8_decode(bs) ==
    IF bs = <<>> THEN [ok |-> TRUE, data |-> <<>>]
    ELSE LET w == Utf8Width(bs[1])
             v == Utf8Head(bs, w)
         IN  IF v < 0 THEN [ok |-> FALSE, data |-> <<>>]
             ELSE LET rest == utf8_decode(SubSeq(bs, w + 1, Len(bs)))
                  IN  [ok |-> rest.ok,
                       data |-> IF rest.ok THEN <<v>> \o rest.data ELSE <<>>]

\* str.encode in the encoding open() picks when none is given: the locale's
\* preferred encoding.  [ok, data]
locale_encode(cps) ==
    IF host.encoding = "utf-8" THEN [ok |-> TRUE, data |-> utf8_encode(cps)]
    ELSE IF \A i \in 1..Len(cps) : cps[i] < 256
         THEN [ok |-> TRUE, data |-> cps]
         ELSE [ok |-> FALSE, data |-> <<>>]

\* what a text file object opened with newline=None writes for s
NewlinesOut(s) ==
    Concat([i \in 1..Len(s) |-> IF s[i] = LF THEN linesep ELSE <<s[i]>>])

\* what a text file object opened with newline=None returns for s: universal
\* newlines, "\r\n" and "\r" become "\n"
RECURSIVE NewlinesIn(_)
NewlinesIn(s) ==
    IF s = <<>> THEN <<>>
    ELSE IF s[1] = CR /\ Len(s) >= 2 /\ s[2] = LF
         THEN <<LF>> \o NewlinesIn(SubSeq(s, 3, Len(s)))
    ELSE IF s[1] = CR THEN <<LF>> \o NewlinesIn(Tail(s))
    ELSE <<s[1]>> \o NewlinesIn(Tail(s))

\* open(p, "w") / open(p, "wb"): creates the file or truncates it
open_w(f, p) ==
    IF Walk(f, p) # "ok" THEN Fail(f, Walk(f, p))
    ELSE IF Has(f, p)
         THEN IF f[p].kind = "dir" THEN Fail(f, "IsADirectoryError")
              ELSE IF ~Access(f[p], "w") THEN Fail(f, "PermissionError")
              ELSE Done(Put(f, p, [f[p] EXCEPT !.data = <<>>]))
    ELSE IF ~MayModify(f, dirname(p)) THEN Fail(f, "PermissionError")
    ELSE Done(Put(f, p, FileNode(<<>>, DefaultFileMode, Self)))

\* with open(p, "wb") as f: f.write(bs)
write_bytes(f, p, bs) ==
    LET Opened(opened) ==
            IF opened.err # "ok" THEN opened
            ELSE Done(Put(opened.fs, p, [opened.fs[p] EXCEPT !.data = bs]))
    IN  Opened(open_w(f, p))

\* with open(p, "w") as f: f.write(s) -- the file is truncated before the
\* text is encoded
write_text(f, p, s) ==
    LET Opened(opened, enc) ==
            IF opened.err # "ok" THEN opened
            ELSE IF ~enc.ok THEN Fail(opened.fs, "UnicodeEncodeError")
            ELSE Done(Put(opened.fs, p, [opened.fs[p] EXCEPT !.data = enc.data]))
    IN  Opened(open_w(f, p), locale_encode(NewlinesOut(s)))

\* open(p, "rb") / open(p, "r"): "ok" or the error
open_r(f, p) ==
    IF Walk(f, p) # "ok" THEN Walk(f, p)
    ELSE IF ~Has(f, p) THEN "FileNotFoundError"
    ELSE IF f[p].kind = "dir" THEN "IsADirectoryError"
    ELSE IF ~Access(f[p], "r") THEN "PermissionError"
    ELSE "ok"

\* os.scandir(d) / os.listdir(d): "ok" or the error
ScanErr(f, d) ==
    IF Walk(f, d) # "ok" THEN Walk(f, d)
    ELSE IF ~Has(f, d) THEN "FileNotFoundError"
    ELSE IF f[d].kind # "dir" THEN "NotADirectoryError"
    ELSE IF ~Access(f[d], "r") THEN "PermissionError"
    ELSE "ok"

\* the names os.scandir(d) yields, in the host's enumeration order
scandir(f, d) ==
    LET present(n) == join(d, n) \in DOMAIN f
    IN  SelectSeq(host.order, present)

\* os.remove(p) / os.unlink(p)
unlink(f, p) ==
    IF Walk(f, p) # "ok" THEN Fail(f, Walk(f, p))
    ELSE IF ~Has(f, p) THEN Fail(f, "FileNotFoundError")
    ELSE IF f[p].kind = "dir" THEN Fail(f, "IsADirectoryError")
    ELSE IF ~MayModify(f, dirname(p)) THEN Fail(f, "PermissionError")
    ELSE Done(Drop(f, {p}))

\* os.rmdir(p)
rmdir(f, p) ==
    IF Walk(f, p) # "ok" THEN Fail(f, Walk(f, p))
    ELSE IF ~Has(f, p) THEN Fail(f, "FileNotFoundError")
    ELSE IF f[p].kind # "dir" THEN Fail(f, "NotADirectoryError")
    ELSE IF Children(f, p) # {} THEN Fail(f, "OSError")
    ELSE IF ~MayModify(f, dirname(p)) THEN Fail(f, "PermissionError")
    ELSE Done(Drop(f, {p}))

\* shutil.rmtree(path): depth first in enumeration order, stopping at the
\* first error with everything removed so far gone
RECURSIVE rmtree(_, _), rmtree_entries(_, _, _)
rmtree(f, path) ==
    LET Emptied(emptied) ==
            IF emptied.err # "ok" THEN emptied ELSE rmdir(emptied.fs, path)
    IN  IF ScanErr(f, path) # "ok" THEN Fail(f, ScanErr(f, path))
        ELSE Emptied(rmtree_entries(f, path, scandir(f, path)))

rmtree_entries(f, d, names) ==
    LET Rest(one) ==
            IF one.err # "ok" THEN one
            ELSE rmtree_entries(one.fs, d, Tail(names))
        Entry(q) ==
            IF f[q].kind = "dir" THEN Rest(rmtree(f, q)) ELSE Rest(unlink(f, q))
    IN  IF names = <<>> THEN Done(f)
        ELSE Entry(join(d, Head(names)))

\* the tree with the subtree at src re-rooted at dst, replacing what is there
Relocate(f, src, dst) ==
    LET kept == DOMAIN f \ (Subtree(f, src) \cup Subtree(f, dst))
        moved == {dst \o relpath(q, src) : q \in Subtree(f, src)}
    IN  [q \in kept \cup moved |->
            IF IsPrefix(dst, q) THEN f[src \o relpath(q, dst)] ELSE f[q]] @@ <<>>

\* os.rename(src, dst) within one filesystem
rename(f, src, dst) ==
    IF Walk(f, src) # "ok" THEN Fail(f, Walk(f, src))
    ELSE IF ~Has(f, src) THEN Fail(f, "FileNotFoundError")
    ELSE IF src = dst THEN Done(f)
    ELSE IF IsPrefix(src, dst) THEN Fail(f, "OSError")
    ELSE IF Walk(f, dst) # "ok" THEN Fail(f, Walk(f, dst))
    ELSE IF ~MayModify(f, dirname(src)) \/ ~MayModify(f, dirname(dst))
         THEN Fail(f, "PermissionError")
    ELSE IF f[src].kind = "dir"
         THEN IF Has(f, dst) /\ f[dst].kind # "dir"
              THEN Fail(f, "NotADirectoryError")
              ELSE IF Has(f, dst) /\ Children(f, dst) # {}
                   THEN Fail(f, "OSError")
              ELSE IF dirname(src) # dirname(dst) /\ ~Access(f[src], "w")
                   THEN Fail(f, "PermissionError")
              ELSE Done(Relocate(f, src, dst))
    ELSE IF Has(f, dst) /\ f[dst].kind = "dir"
         THEN Fail(f, "IsADirectoryError")
    ELSE Done(Relocate(f, src, dst))

\* shutil.copyfile(src, dst)
copyfile(f, src, dst) ==
    IF exists(f, src) /\ src = dst THEN Fail(f, "SameFileError")
    ELSE IF open_r(f, src) # "ok" THEN Fail(f, open_r(f, src))
    ELSE write_bytes(f, dst, f[src].data)

\* shutil.copystat(src, dst): the mode bits (and times) of src onto dst
copystat(f, src, dst) ==
    IF ~StatOk(f, src) THEN Fail(f, "FileNotFoundError")
    ELSE chmod(f, dst, f[src].mode)

\* shutil.copy2(src, dst): into dst when dst is a directory
copy2(f, src, dst) ==
    LET Copied(copied, target) ==
            IF copied.err # "ok" THEN copied
            ELSE copystat(copied.fs, src, target)
        Into(target) == Copied(copyfile(f, src, target), target)
    IN  IF isdir(f, dst) THEN Into(join(dst, basename(src))) ELSE Into(dst)

\* shutil.copytree(src, dst): lists src, creates dst, copies every entry and
\* then the directory's mode; errors of the entries are collected and raised
\* at the end, so the copy goes on after one.  A destination deeper than
\* MaxDepth is created and not descended into.
RECURSIVE copytree(_, _, _), copytree_entries(_, _, _, _)
copytree(f, src, dst) ==
    LET Stat(filled, stat) ==
            IF filled.err # "ok" \/ stat.err # "ok"
            THEN Fail(stat.fs, "Error")
            ELSE stat
        Filled(filled) == Stat(filled, copystat(filled.fs, src, dst))
        Made(made) ==
            IF made.err # "ok" \/ Len(dst) > MaxDepth THEN made
            ELSE Filled(copytree_entries(made.fs, src, dst, scandir(f, src)))
    IN  IF ScanErr(f, src) # "ok" THEN Fail(f, ScanErr(f, src))
        ELSE Made(makedirs(f, dst, FALSE))

copytree_entries(f, src, dst, names) ==
    LET Rest(one, rest) ==
            IF one.err # "ok" THEN Fail(rest.fs, "Error") ELSE rest
        One(one) == Rest(one, copytree_entries(one.fs, src, dst, Tail(names)))
        Entry(s, d) ==
            IF f[s].kind = "dir" THEN One(copytree(f, s, d)) ELSE One(copy2(f, s, d))
    IN  IF names = <<>> THEN Done(f)
        ELSE Entry(join(src, Head(names)), join(dst, Head(names)))

\* shutil.move(src, dst): a rename, into dst when dst is a directory, and a
\* copy followed by a removal when the rename fails
move(f, src, dst) ==
    LET Tree(tree) == IF tree.err # "ok" THEN tree ELSE rmtree(tree.fs, src)
        One(one) == IF one.err # "ok" THEN one ELSE unlink(one.fs, src)
        Renamed(renamed, real_dst) ==
            IF renamed.err = "ok" THEN renamed
            ELSE IF isdir(f, src)
                 THEN IF IsPrefix(src, dst) THEN Fail(f, "Error")
                      ELSE Tree(copytree(f, src, real_dst))
            ELSE One(copy2(f, src, real_dst))
        Into(real_dst) ==
            IF src = dst THEN rename(f, src, dst)
            ELSE IF exists(f, real_dst) THEN Fail(f, "Error")
            ELSE Renamed(rename(f, src, real_dst), real_dst)
    IN  IF isdir(f, dst) THEN Into(join(dst, basename(src)))
        ELSE Renamed(rename(f, src, dst), dst)

\* the files os.walk(top) reports, each relative to path; a directory that
\* cannot be enumerated is skipped without an error (onerror is None)
\* os.path.relpath(os.path.join(top, file), path) for every file of files
RECURSIVE RelativeTo(_, _, _)
RelativeTo(path, top, files) ==
    IF files = <<>> THEN <<>>
    ELSE <<relpath(join(top, Head(files)), path)>>
         \o RelativeTo(path, top, Tail(files))

RECURSIVE walk_files(_, _, _), walk_dirs(_, _, _, _)
walk_files(f, path, top) ==
    IF ScanErr(f, top) # "ok" THEN <<>>
    ELSE LET names == scandir(f, top)
             isf(n) == f[join(top, n)].kind = "file"
             isd(n) == f[join(top, n)].kind = "dir"
             files == SelectSeq(names, isf)
         IN  RelativeTo(path, top, files)
             \o walk_dirs(f, path, top, SelectSeq(names, isd))

walk_dirs(f, path, top, dirs) ==
    IF dirs = <<>> THEN <<>>
    ELSE walk_files(f, path, join(top, Head(dirs)))
         \o walk_dirs(f, path, top, Tail(dirs))

----------------------------------------------------------------------------
(* DirectoryUtils *)

\* os.path.exists in place of os.path.isdir
directory_exist_any(f, path) == exists(f, path)

directory_exist(f, path) == isdir(f, path)

\* the try block of create_directory: os.makedirs, then chmod and chown
create_directory_make(f, path, permissions, user) ==
    LET Created(out) ==
            IF out.err = "ok" THEN Return(out.fs, True)
            ELSE Raise(out.fs, "DirectoryUtilsException",
                       "DIRECTORY_CREATION_ERROR", {"path"})
        Made(made) ==
            IF made.err # "ok" THEN Created(made)
            ELSE Created(ApplyModeAndOwner(made.fs, path, permissions, user))
    IN  Invoked("os.makedirs", Made(makedirs(f, path, FALSE)))

\* create_directory applying mode and owner to a directory that exists
create_directory_reapplied(f, path, permissions, user) ==
    LET Applied(out) ==
            IF out.err = "ok" THEN Return(out.fs, True)
            ELSE Raise(out.fs, "DirectoryUtilsException",
                       "DIRECTORY_CREATION_ERROR", {"path"})
    IN  IF directory_exist(f, path)
        THEN Applied(ApplyModeAndOwner(f, path, permissions, user))
        ELSE create_directory_make(f, path, permissions, user)

\* the existence check of create_directory: True for a directory that
\* exists, None otherwise
create_directory_check(f, path) ==
    IF directory_exist(f, path) THEN Return(f, True) ELSE Return(f, NoValue)

create_directory(f, path, permissions, user) ==
    LET Checked(check) ==
            IF check.res.val = True THEN check
            ELSE create_directory_make(f, path, permissions, user)
    IN  Checked(create_directory_check(f, path))

list_directory(f, path, recursive) ==
    IF ~directory_exist(f, path)
    THEN Raise(f, "DirectoryUtilsException", "DIRECTORY_NOT_FOUND", {"path"})
    ELSE IF ~recursive
         THEN IF ScanErr(f, path) # "ok"
              THEN Raise(f, "DirectoryUtilsException", "DIRECTORY_LISTING_ERROR",
                         {"path", "recursive"})
              ELSE Return(f, List(scandir(f, path)))
    ELSE Return(f, List(walk_files(f, path, path)))

\* shutil.rmtree without the existence check before it
remove_directory_unguarded(f, path) ==
    LET Outcome(out) ==
            IF out.err = "ok" THEN Return(out.fs, True)
            ELSE Raise(out.fs, "DirectoryUtilsException",
                       "DIRECTORY_REMOVE_ERROR", {"path"})
    IN  Invoked("shutil.rmtree", Outcome(rmtree(f, path)))

remove_directory(f, path) ==
    LET Outcome(out) ==
            IF out.err = "ok" THEN Return(out.fs, True)
            ELSE Raise(out.fs, "DirectoryUtilsException",
                       "DIRECTORY_REMOVE_ERROR", {"path"})
    IN  IF ~directory_exist(f, path)
        THEN Raise(f, "DirectoryUtilsException", "DIRECTORY_NOT_FOUND", {"path"})
        ELSE Invoked("shutil.rmtree", Outcome(rmtree(f, path)))

\* os.rename without looking at dst first
rename_directory_unguarded(f, src, dst) ==
    LET Outcome(out) ==
            IF out.err = "ok" THEN Return(out.fs, True)
            ELSE Raise(out.fs, "DirectoryUtilsException",
                       "DIRECTORY_RENAME_ERROR", {"src", "dst"})
    IN  IF ~directory_exist(f, src)
        THEN Raise(f, "DirectoryUtilsException", "DIRECTORY_NOT_FOUND", {"src"})
        ELSE Invoked("os.rename", Outcome(rename(f, src, dst)))

rename_directory(f, src, dst) ==
    LET Outcome(out) ==
            IF out.err = "ok" THEN Return(out.fs, True)
            ELSE Raise(out.fs, "DirectoryUtilsException",
                       "DIRECTORY_RENAME_ERROR", {"src", "dst"})
    IN  IF ~directory_exist(f, src)
        THEN Raise(f, "DirectoryUtilsException", "DIRECTORY_NOT_FOUND", {"src"})
        ELSE IF directory_exist(f, dst)
             THEN Raise(f, "DirectoryUtilsException", "DIRECTORY_ALREADY_EXISTS",
                        {"dst"})
        ELSE Invoked("os.rename", Outcome(rename(f, src, dst)))

move_directory(f, src, dst) ==
    LET Outcome(out) ==
            IF out.err = "ok" THEN Return(out.fs, True)
            ELSE Raise(out.fs, "DirectoryUtilsException",
                       "DIRECTORY_MOVE_ERROR", {"src", "dst"})
    IN  IF ~directory_exist(f, src)
        THEN Raise(f, "DirectoryUtilsException", "DIRECTORY_NOT_FOUND", {"src"})
        ELSE Invoked("shutil.move", Outcome(move(f, src, dst)))

copy_directory(f, src, dst) ==
    LET Outcome(out) ==
            IF out.err = "ok" THEN Return(out.fs, True)
            ELSE Raise(out.fs, "DirectoryUtilsException",
                       "DIRECTORY_COPY_ERROR", {"src", "dst"})
    IN  IF ~directory_exist(f, src)
        THEN Raise(f, "DirectoryUtilsException", "DIRECTORY_NOT_FOUND", {"src"})
        ELSE IF directory_exist(f, dst)
             THEN Raise(f, "DirectoryUtilsException", "DIRECTORY_ALREADY_EXISTS",
                        {"dst"})
        ELSE Invoked("shutil.copytree", Outcome(copytree(f, src, dst)))

----------------------------------------------------------------------------
(* FileUtils *)

file_exist(f, path) == isfile(f, path)

write_file(f, file_path, content, binary, permissions, user) ==
    LET Finished(out) ==
            Invoked("open",
                    IF out.err = "ok" THEN Return(out.fs, True)
                    ELSE Raise(out.fs, "FileUtilsException", "FILE_WRITE_ERROR",
                               {"file_path", "binary"}))
        Written(written) ==
            IF written.err # "ok" THEN Finished(written)
            ELSE Finished(ApplyModeAndOwner(written.fs, file_path,
                                            permissions, user))
        Text(g, decoded) ==
            IF IsBytes(content) /\ ~decoded.ok
            THEN Raise(g, "UnicodeDecodeError", "none", {})
            ELSE Written(write_text(g, file_path,
                                    IF IsBytes(content)
                                    THEN decoded.data ELSE content.str))
        Parent(parent) ==
            IF ~parent.res.ok THEN parent
            ELSE IF parent.res.val # True
                 THEN Raise(parent.fs, "FileUtilsException",
                            "DIRECTORY_CREATION_FAILED", {"directory"})
            ELSE IF binary
                 THEN Written(write_bytes(parent.fs, file_path,
                                          IF IsStr(content)
                                          THEN utf8_encode(content.str)
                                          ELSE content.bytes))
            ELSE Text(parent.fs, utf8_decode(content.bytes))
        Directory(directory) ==
            IF directory # <<>> /\ ~directory_exist(f, directory)
            THEN Parent(create_directory(f, directory, permissions, user))
            ELSE Parent(Return(f, True))
    IN  Directory(dirname(file_path))

read_file(f, file_path, binary) ==
    IF ~file_exist(f, file_path)
    THEN Raise(f, "FileUtilsException", "FILE_NOT_FOUND", {"file_path"})
    ELSE LET decoded == utf8_decode(f[file_path].data)
         IN  IF open_r(f, file_path) # "ok" \/ (~binary /\ ~decoded.ok)
             THEN Raise(f, "FileUtilsException", "FILE_READ_ERROR",
                        {"file_path", "binary"})
             ELSE IF binary THEN Return(f, Bytes(f[file_path].data))
             ELSE Return(f, Str(NewlinesIn(decoded.data)))

remove_file(f, file_path) ==
    LET Outcome(out) ==
            IF out.err = "ok" THEN Return(out.fs, True)
            ELSE Raise(out.fs, "FileUtilsException",
                       "FILE_REMOVE_ERROR", {"file_path"})
    IN  IF ~file_exist(f, file_path)
        THEN Raise(f, "FileUtilsException", "FILE_NOT_FOUND", {"file_path"})
        ELSE Invoked("os.remove", Outcome(unlink(f, file_path)))

\* the existence checks of rename_file: the exception of the one that fails,
\* None when both pass
rename_file_check(f, src, dst) ==
    IF ~file_exist(f, src)
    THEN Raise(f, "FileUtilsException", "FILE_NOT_FOUND", {"src"})
    ELSE IF file_exist(f, dst)
         THEN Raise(f, "FileUtilsException", "FILE_ALREADY_EXISTS", {"dst"})
    ELSE Return(f, NoValue)

\* the try block of rename_file looking at dst once more, in one step with
\* os.rename
rename_file_recheck(f, src, dst) ==
    LET Outcome(out) ==
            IF out.err = "ok" THEN Return(out.fs, True)
            ELSE Raise(out.fs, "FileUtilsException",
                       "FILE_RENAME_ERROR", {"src", "dst"})
    IN  IF file_exist(f, dst)
        THEN Raise(f, "FileUtilsException", "FILE_ALREADY_EXISTS", {"dst"})
        ELSE Invoked("os.rename", Outcome(rename(f, src, dst)))

\* the try block of rename_file: os.rename
rename_file_rename(f, src, dst) ==
    LET Outcome(out) ==
            IF out.err = "ok" THEN Return(out.fs, True)
            ELSE Raise(out.fs, "FileUtilsException",
                       "FILE_RENAME_ERROR", {"src", "dst"})
    IN  Invoked("os.rename", Outcome(rename(f, src, dst)))

rename_file(f, src, dst) ==
    LET Checked(check) ==
            IF ~check.res.ok THEN check ELSE rename_file_rename(f, src, dst)
    IN  Checked(rename_file_check(f, src, dst))

\* move_file refusing a dst that exists, the way rename_file does
move_file_guarded(f, src, dst) ==
    LET Outcome(out) ==
            IF out.err = "ok" THEN Return(out.fs, True)
            ELSE Raise(out.fs, "FileUtilsException",
                       "FILE_MOVE_ERROR", {"src", "dst"})
    IN  IF ~file_exist(f, src)
        THEN Raise(f, "FileUtilsException", "FILE_NOT_FOUND", {"src"})
        ELSE IF file_exist(f, dst)
             THEN Raise(f, "FileUtilsException", "FILE_ALREADY_EXISTS", {"dst"})
        ELSE Invoked("shutil.move", Outcome(move(f, src, dst)))

move_file(f, src, dst) ==
    LET Outcome(out) ==
            IF out.err = "ok" THEN Return(out.fs, True)
            ELSE Raise(out.fs, "FileUtilsException",
                       "FILE_MOVE_ERROR", {"src", "dst"})
    IN  IF ~file_exist(f, src)
        THEN Raise(f, "FileUtilsException", "FILE_NOT_FOUND", {"src"})
        ELSE Invoked("shutil.move", Outcome(move(f, src, dst)))

\* shutil.copy2 without looking at dst first
copy_file_unguarded(f, src, dst) ==
    LET Outcome(out) ==
            IF out.err = "ok" THEN Return(out.fs, True)
            ELSE Raise(out.fs, "FileUtilsException",
                       "FILE_COPY_ERROR", {"src", "dst"})
    IN  IF ~file_exist(f, src)
        THEN Raise(f, "FileUtilsException", "FILE_NOT_FOUND", {"src"})
        ELSE Invoked("shutil.copy2", Outcome(copy2(f, src, dst)))

copy_file(f, src, dst) ==
    LET Outcome(out) ==
            IF out.err = "ok" THEN Return(out.fs, True)
            ELSE Raise(out.fs, "FileUtilsException",
                       "FILE_COPY_ERROR", {"src", "dst"})
    IN  IF ~file_exist(f, src)
        THEN Raise(f, "FileUtilsException", "FILE_NOT_FOUND", {"src"})
        ELSE IF file_exist(f, dst)
             THEN Raise(f, "FileUtilsException", "FILE_ALREADY_EXISTS", {"dst"})
        ELSE Invoked("shutil.copy2", Outcome(copy2(f, src, dst)))

----------------------------------------------------------------------------
(* YAML values.  yaml.safe_dump and yaml.safe_load carry None, bool, int,  *)
(* str, list and dict; a dict is the sequence of its (key, value) pairs in *)
(* insertion order.  An object stands for a value safe_dump cannot         *)
(* represent.  Characters are code points.                                 *)

Integer(n) == [int |-> n]

Dict(pairs) == [dict |-> pairs]

Object(name) == [object |-> name]

IsNone(v) == DOMAIN v = {"none"}

IsBool(v) == DOMAIN v = {"bool"}

IsInt(v) == DOMAIN v = {"int"}

IsList(v) == DOMAIN v = {"list"}

IsDict(v) == DOMAIN v = {"dict"}

IsObject(v) == DOMAIN v = {"object"}

IsNumber(v) == IsBool(v) \/ IsInt(v)

\* a bool is an int in Python: True == 1 and False == 0
Number(v) == IF IsBool(v) THEN (IF v.bool THEN 1 ELSE 0) ELSE v.int

\* k1 == k2 (and hash(k1) == hash(k2)) for two keys of a dict
PyEq(a, b) == IF IsNumber(a) /\ IsNumber(b) THEN Number(a) = Number(b) ELSE a = b

\* d[k] = v on the pairs of d
SetItem(pairs, k, v) ==
    IF \E i \in 1..Len(pairs) : PyEq(pairs[i][1], k)
    THEN [i \in 1..Len(pairs) |->
             IF PyEq(pairs[i][1], k) THEN <<pairs[i][1], v>> ELSE pairs[i]]
    ELSE Append(pairs, <<k, v>>)

Ch == [nul |-> 0, sp |-> 32, dq |-> 34, hash |-> 35, sq |-> 39, plus |-> 43,
       minus |-> 45, dot |-> 46, zero |-> 48, colon |-> 58, qm |-> 63,
       bslash |-> 92, under |-> 95, b |-> 98, u |-> 117, x |-> 120,
       U |-> 85, lbrace |-> 123, rbrace |-> 125, lbracket |-> 91,
       rbracket |-> 93, tilde |-> 126]

Digits == 48..57

HexDigits == Digits \cup (97..102) \cup (65..70)

InAll(s, S) == \A i \in 1..Len(s) : s[i] \in S

\* s[i-1:] in Python's terms
From(s, i) == SubSeq(s, i, Len(s))

StartsWith(s, p) == Len(s) >= Len(p) /\ SubSeq(s, 1, Len(p)) = p

\* str.split(c)
RECURSIVE Split(_, _)
Split(s, c) ==
    IF \A i \in 1..Len(s) : s[i] # c THEN <<s>>
    ELSE LET k == CHOOSE i \in 1..Len(s) :
                      s[i] = c /\ \A j \in 1..(i - 1) : s[j] # c
         IN  <<SubSeq(s, 1, k - 1)>> \o Split(From(s, k + 1), c)

----------------------------------------------------------------------------
(* The resolver of yaml.safe_dump and yaml.safe_load (YAML 1.1): the tag a *)
(* plain scalar has.  Floats and timestamps need a "." or ten characters   *)
(* and more; the scalars here are shorter and have no ".".                 *)

\* "~", "null", "Null", "NULL" and the empty scalar
NullWords ==
    { <<>>, <<126>>, <<110, 117, 108, 108>>, <<78, 117, 108, 108>>,
      <<78, 85, 76, 76>> }

\* yes Yes YES true True TRUE on On ON
TrueWords ==
    { <<121, 101, 115>>, <<89, 101, 115>>, <<89, 69, 83>>,
      <<116, 114, 117, 101>>, <<84, 114, 117, 101>>, <<84, 82, 85, 69>>,
      <<111, 110>>, <<79, 110>>, <<79, 78>> }

\* no No NO false False FALSE off Off OFF
FalseWords ==
    { <<110, 111>>, <<78, 111>>, <<78, 79>>,
      <<102, 97, 108, 115, 101>>, <<70, 97, 108, 115, 101>>,
      <<70, 65, 76, 83, 69>>,
      <<111, 102, 102>>, <<79, 102, 102>>, <<79, 70, 70>> }

unsigned(s) ==
    IF s # <<>> /\ s[1] \in {Ch.minus, Ch.plus} THEN Tail(s) ELSE s

\* [1-9][0-9_]*(?::[0-5]?[0-9])+
sexagesimal(body) ==
    LET parts == Split(body, Ch.colon)
    IN  /\ Len(parts) >= 2
        /\ parts[1] # <<>> /\ parts[1][1] \in 49..57
        /\ InAll(parts[1], Digits \cup {Ch.under})
        /\ \A i \in 2..Len(parts) :
               \/ Len(parts[i]) = 1 /\ parts[i][1] \in Digits
               \/ Len(parts[i]) = 2 /\ parts[i][1] \in 48..53
                                    /\ parts[i][2] \in Digits

\* [-+]?0b[0-1_]+ | [-+]?0[0-7_]+ | [-+]?(?:0|[1-9][0-9_]*)
\* | [-+]?0x[0-9a-fA-F_]+ | [-+]?[1-9][0-9_]*(?::[0-5]?[0-9])+
is_int(s) ==
    LET body == unsigned(s)
    IN  \/ StartsWith(body, <<Ch.zero, Ch.b>>) /\ Len(body) > 2
           /\ InAll(From(body, 3), {48, 49, Ch.under})
        \/ StartsWith(body, <<Ch.zero>>) /\ Len(body) > 1
           /\ InAll(Tail(body), (48..55) \cup {Ch.under})
        \/ body = <<Ch.zero>>
        \/ body # <<>> /\ body[1] \in 49..57
           /\ InAll(Tail(body), Digits \cup {Ch.under})
        \/ StartsWith(body, <<Ch.zero, Ch.x>>) /\ Len(body) > 2
           /\ InAll(From(body, 3), HexDigits \cup {Ch.under})
        \/ sexagesimal(body)

resolve(s) ==
    IF s \in NullWords THEN "null"
    ELSE IF s \in TrueWords \cup FalseWords THEN "bool"
    ELSE IF is_int(s) THEN "int"
    ELSE "str"

DigitOf(c) ==
    IF c \in Digits THEN c - 48 ELSE IF c >= 97 THEN c - 87 ELSE c - 55

\* int(s, base)
RECURSIVE ValueIn(_, _, _)
ValueIn(s, base, sofar) ==
    IF s = <<>> THEN sofar
    ELSE ValueIn(Tail(s), base, (sofar * base) + DigitOf(s[1]))

RECURSIVE Base60(_, _)
Base60(parts, sofar) ==
    IF parts = <<>> THEN sofar
    ELSE Base60(Tail(parts), (sofar * 60) + ValueIn(Head(parts), 10, 0))

\* construct_yaml_int: [err, val]; int("", base) raises
construct_yaml_int(s) ==
    LET bare == SelectSeq(s, LAMBDA c : c # Ch.under)
        sign == IF bare[1] = Ch.minus THEN -1 ELSE 1
        body == unsigned(bare)
    IN  IF body = <<Ch.zero>> THEN [err |-> "none", val |-> Integer(0)]
        ELSE IF body \in {<<Ch.zero, Ch.b>>, <<Ch.zero, Ch.x>>}
             THEN [err |-> "ValueError", val |-> NoValue]
        ELSE IF StartsWith(body, <<Ch.zero, Ch.b>>)
             THEN [err |-> "none", val |-> Integer(sign * ValueIn(From(body, 3), 2, 0))]
        ELSE IF StartsWith(body, <<Ch.zero, Ch.x>>)
             THEN [err |-> "none", val |-> Integer(sign * ValueIn(From(body, 3), 16, 0))]
        ELSE IF body[1] = Ch.zero
             THEN [err |-> "none", val |-> Integer(sign * ValueIn(body, 8, 0))]
        ELSE IF \E i \in 1..Len(body) : body[i] = Ch.colon
             THEN [err |-> "none", val |-> Integer(sign * Base60(Split(body, Ch.colon), 0))]
        ELSE [err |-> "none", val |-> Integer(sign * ValueIn(body, 10, 0))]

\* the Python value of a scalar: [err, val]
construct_scalar(s, plain) ==
    LET tag == IF plain THEN resolve(s) ELSE "str"
    IN  IF tag = "null" THEN [err |-> "none", val |-> NoValue]
        ELSE IF tag = "bool" THEN [err |-> "none", val |-> Bool(s \in TrueWords)]
        ELSE IF tag = "int" THEN construct_yaml_int(s)
        ELSE [err |-> "none", val |-> Str(s)]

----------------------------------------------------------------------------
(* yaml.safe_dump(data, default_flow_style=False): block style, keys       *)
(* sorted, ASCII only.  The document is built as its lines.  Lines stay    *)
(* below the emitter's width of 80 columns here, so none is folded.        *)

\* "\n", NEL, LS, PS
Breaks == {10, 133, 8232, 8233}

\* "\0 \t\r\n\x85  "
Blanks == {0, 32, 9, 13} \cup Breaks

\* #,[]{}&*!|>'"%@`
Indicators == {35, 44, 91, 93, 123, 125, 38, 42, 33, 124, 62, 39, 34, 37, 64, 96}

analyze_scalar(s) ==
    LET n == Len(s)
        followed(i) == i = n \/ s[i + 1] \in Blanks
        block_indicators ==
            \/ StartsWith(s, <<45, 45, 45>>) \/ StartsWith(s, <<46, 46, 46>>)
            \/ n >= 1 /\ \/ s[1] \in Indicators
                         \/ s[1] \in {Ch.qm, Ch.colon, Ch.minus} /\ followed(1)
            \/ \E i \in 2..n : \/ s[i] = Ch.colon /\ followed(i)
                               \/ s[i] = Ch.hash /\ s[i - 1] \in Blanks
        line_breaks == \E i \in 1..n : s[i] \in Breaks
        special == \E i \in 1..n : ~(s[i] = LF \/ (s[i] >= 32 /\ s[i] <= 126))
        edge_space == n >= 1 /\ (s[1] = Ch.sp \/ s[n] = Ch.sp)
        edge_break == n >= 1 /\ (s[1] \in Breaks \/ s[n] \in Breaks)
        break_space == \E i \in 2..n : s[i] = Ch.sp /\ s[i - 1] \in Breaks
        space_break == \E i \in 2..n : s[i] \in Breaks /\ s[i - 1] = Ch.sp
    IN  [empty |-> n = 0,
         multiline |-> line_breaks,
         allow_block_plain |->
             ~(edge_space \/ edge_break \/ break_space \/ space_break
               \/ special \/ line_breaks \/ block_indicators),
         allow_single_quoted |-> ~(break_space \/ space_break \/ special)]

choose_scalar_style(s, simple_key) ==
    LET Choice(analysis) ==
            IF /\ resolve(s) = "str"
               /\ ~(simple_key /\ (analysis.empty \/ analysis.multiline))
               /\ analysis.allow_block_plain
            THEN "plain"
            ELSE IF analysis.allow_single_quoted
                    /\ ~(simple_key /\ analysis.multiline)
                 THEN "single"
            ELSE "double"
    IN  Choice(analyze_scalar(s))

\* ESCAPE_REPLACEMENTS, code point to the letter after the backslash
Escapes ==
    (0 :> 48) @@ (7 :> 97) @@ (8 :> 98) @@ (9 :> 116) @@ (10 :> 110)
    @@ (11 :> 118) @@ (12 :> 102) @@ (13 :> 114) @@ (27 :> 101) @@ (34 :> 34)
    @@ (92 :> 92) @@ (133 :> 78) @@ (160 :> 95) @@ (8232 :> 76) @@ (8233 :> 80)

HexChar(d) == IF d < 10 THEN 48 + d ELSE 55 + d

\* "%0*X" % (width, v)
RECURSIVE Hex(_, _)
Hex(v, width) ==
    IF width = 0 THEN <<>>
    ELSE Hex(v \div 16, width - 1) \o <<HexChar(v % 16)>>

escape(c) ==
    IF c \in DOMAIN Escapes THEN <<Ch.bslash, Escapes[c]>>
    ELSE IF c >= 32 /\ c <= 126 THEN <<c>>
    ELSE IF c <= 255 THEN <<Ch.bslash, Ch.x>> \o Hex(c, 2)
    ELSE IF c <= 65535 THEN <<Ch.bslash, Ch.u>> \o Hex(c, 4)
    ELSE <<Ch.bslash, Ch.U>> \o Hex(c, 8)

write_double_quoted(s) ==
    << <<Ch.dq>> \o Concat([i \in 1..Len(s) |-> escape(s[i])]) \o <<Ch.dq>> >>

\* the number of "\n" s begins with
RECURSIVE BreakRun(_)
BreakRun(s) == IF s # <<>> /\ s[1] = LF THEN 1 + BreakRun(Tail(s)) ELSE 0

\* the lines of s and the closing quote: "'" is doubled, a run of k breaks
\* is written as k + 1 breaks and the indentation
RECURSIVE single_body(_)
single_body(s) ==
    IF s = <<>> THEN << <<Ch.sq>> >>
    ELSE IF s[1] = LF
         THEN LET k == BreakRun(s)
                  rest == single_body(From(s, k + 1))
              IN  [i \in 1..(k + 1) |-> <<>>]
                  \o << <<Ch.sp, Ch.sp>> \o rest[1] >> \o Tail(rest)
    ELSE LET rest == single_body(Tail(s))
         IN  << (IF s[1] = Ch.sq THEN <<Ch.sq, Ch.sq>> ELSE <<s[1]>>) \o rest[1] >>
             \o Tail(rest)

write_single_quoted(s) ==
    LET body == single_body(s)
    IN  << <<Ch.sq>> \o body[1] >> \o Tail(body)

\* str(n)
RECURSIVE decimal(_)
decimal(n) ==
    IF n < 0 THEN <<Ch.minus>> \o decimal(-n)
    ELSE (IF n >= 10 THEN decimal(n \div 10) ELSE <<>>) \o <<48 + (n % 10)>>

IsScalar(v) == ~(IsList(v) \/ IsDict(v))

scalar_lines(v, simple_key) ==
    LET Written(style) ==
            IF style = "plain" THEN <<v.str>>
            ELSE IF style = "single" THEN write_single_quoted(v.str)
            ELSE write_double_quoted(v.str)
    IN  IF IsNone(v) THEN << <<110, 117, 108, 108>> >>
        ELSE IF IsBool(v)
             THEN IF v.bool THEN << <<116, 114, 117, 101>> >>
                  ELSE << <<102, 97, 108, 115, 101>> >>
        ELSE IF IsInt(v) THEN <<decimal(v.int)>>
        ELSE Written(choose_scalar_style(v.str, simple_key))

\* a key may be written as "key: ": it is no empty and no multi-line string
check_simple_key(k) ==
    ~(IsStr(k) /\ (k.str = <<>> \/ \E i \in 1..Len(k.str) : k.str[i] \in Breaks))

\* one level of indentation more; an empty line stays empty
shift(lines) ==
    [i \in 1..Len(lines) |->
        IF lines[i] = <<>> THEN <<>> ELSE <<Ch.sp, Ch.sp>> \o lines[i]]

hang(lead, lines, shifted) ==
    <<lead \o lines[1]>> \o (IF shifted THEN shift(Tail(lines)) ELSE Tail(lines))

comparable(a, b) == (IsNumber(a) /\ IsNumber(b)) \/ (IsStr(a) /\ IsStr(b))

RECURSIVE StrLess(_, _)
StrLess(a, b) ==
    IF b = <<>> THEN FALSE
    ELSE IF a = <<>> THEN TRUE
    ELSE IF a[1] # b[1] THEN a[1] < b[1]
    ELSE StrLess(Tail(a), Tail(b))

KeyLess(a, b) ==
    IF IsStr(a) THEN StrLess(a.str, b.str) ELSE Number(a) < Number(b)

RECURSIVE sorted(_)
sorted(items) ==
    IF items = <<>> THEN <<>>
    ELSE LET x == Head(items)
             rest == sorted(Tail(items))
         IN  SelectSeq(rest, LAMBDA y : KeyLess(y[1], x[1])) \o <<x>>
             \o SelectSeq(rest, LAMBDA y : ~KeyLess(y[1], x[1]))

\* represent_mapping: sorted(mapping), or as it is when that raises TypeError
sort_items(items) ==
    IF \A i \in 1..Len(items), j \in 1..Len(items) :
           i # j => comparable(items[i][1], items[j][1])
    THEN sorted(items)
    ELSE items

RECURSIVE node_lines(_)
RECURSIVE entry_lines(_, _)
RECURSIVE mapping_lines(_)
RECURSIVE sequence_lines(_)

node_lines(v) ==
    IF IsDict(v)
    THEN IF v.dict = <<>> THEN << <<Ch.lbrace, Ch.rbrace>> >>
         ELSE mapping_lines(sort_items(v.dict))
    ELSE IF IsList(v)
         THEN IF v.list = <<>> THEN << <<Ch.lbracket, Ch.rbracket>> >>
              ELSE sequence_lines(v.list)
    ELSE scalar_lines(v, FALSE)

entry_lines(k, v) ==
    LET Keyed(key) ==
            IF IsDict(v) /\ v.dict # <<>>
            THEN <<key \o <<Ch.colon>> >> \o shift(node_lines(v))
            ELSE IF IsList(v) /\ v.list # <<>>
                 THEN <<key \o <<Ch.colon>> >> \o node_lines(v)
            ELSE hang(key \o <<Ch.colon, Ch.sp>>, node_lines(v), FALSE)
    IN  IF check_simple_key(k) THEN Keyed(scalar_lines(k, TRUE)[1])
        ELSE hang(<<Ch.qm, Ch.sp>>, scalar_lines(k, FALSE), FALSE)
             \o hang(<<Ch.colon, Ch.sp>>, node_lines(v), ~IsScalar(v))

mapping_lines(items) ==
    IF items = <<>> THEN <<>>
    ELSE entry_lines(items[1][1], items[1][2]) \o mapping_lines(Tail(items))

sequence_lines(items) ==
    IF items = <<>> THEN <<>>
    ELSE hang(<<Ch.minus, Ch.sp>>, node_lines(items[1]), ~IsScalar(items[1]))
         \o sequence_lines(Tail(items))

\* SafeRepresenter has a representer for the value and all it holds
RECURSIVE representable(_)
representable(v) ==
    IF IsObject(v) THEN FALSE
    ELSE IF IsList(v) THEN \A i \in 1..Len(v.list) : representable(v.list[i])
    ELSE IF IsDict(v)
         THEN \A i \in 1..Len(v.dict) :
                  representable(v.dict[i][1]) /\ representable(v.dict[i][2])
    ELSE TRUE

\* [ok, text]: the document of a list or dict, or RepresenterError
safe_dump(data) ==
    LET Document(lines) ==
            [ok |-> TRUE,
             text |-> Concat([i \in 1..Len(lines) |-> lines[i] \o <<LF>>])]
    IN  IF ~representable(data) THEN [ok |-> FALSE, text |-> <<>>]
        ELSE Document(node_lines(data))

----------------------------------------------------------------------------
(* yaml.safe_load(text): scanner, parser and constructor in one descent    *)
(* over the text, driven by columns.  The model reads block mappings and   *)
(* sequences, "{}" and "[]", plain and quoted scalars and comments.  Text  *)
(* with other flow collections, anchors, tags, block scalars, directives,  *)
(* document markers, tabs, or line breaks other than "\n" is "beyond" it.  *)
(* Places are indices into the text; the place after the text holds "\0".  *)

at(t, i) == IF i >= 1 /\ i <= Len(t) THEN t[i] ELSE Ch.nul

ws(t, i) == at(t, i) \in {Ch.nul, Ch.sp, LF}

\* the place where the line of i begins
LineStart(t, i) ==
    LET before == {j \in 1..(i - 1) : j <= Len(t) /\ t[j] = LF}
    IN  IF before = {} THEN 1
        ELSE (CHOOSE j \in before : \A k \in before : k <= j) + 1

\* the column of i, from 0
col(t, i) == i - LineStart(t, i)

RECURSIVE SkipSpaces(_, _)
SkipSpaces(t, i) == IF at(t, i) = Ch.sp THEN SkipSpaces(t, i + 1) ELSE i

RECURSIVE LineEnd(_, _)
LineEnd(t, i) == IF at(t, i) \in {Ch.nul, LF} THEN i ELSE LineEnd(t, i + 1)

\* the place of the next token: spaces, comments and line breaks skipped
RECURSIVE scan_to_next_token(_, _)
scan_to_next_token(t, i) ==
    LET j == SkipSpaces(t, i)
        k == IF at(t, j) = Ch.hash THEN LineEnd(t, j) ELSE j
    IN  IF at(t, k) = LF THEN scan_to_next_token(t, k + 1) ELSE k

\* "---" or "..." at column 0
marker(t, i) ==
    /\ col(t, i) = 0
    /\ i + 2 <= Len(t)
    /\ SubSeq(t, i, i + 2) \in {<<45, 45, 45>>, <<46, 46, 46>>}
    /\ ws(t, i + 3)

Scalar(s, plain, j, multi) ==
    [err |-> "none", leaf |-> NoValue, text |-> s, plain |-> plain,
     end |-> j, multi |-> multi]

NoScalar(e) ==
    [err |-> e, leaf |-> NoValue, text |-> <<>>, plain |-> FALSE,
     end |-> 0, multi |-> FALSE]

\* where the run of characters of a plain scalar that starts at j ends
RECURSIVE ChunkEnd(_, _)
ChunkEnd(t, j) ==
    IF ws(t, j) \/ (at(t, j) = Ch.colon /\ ws(t, j + 1)) THEN j
    ELSE ChunkEnd(t, j + 1)

RECURSIVE PlainBreaks(_, _, _)
PlainBreaks(t, k, breaks) ==
    IF at(t, k) = Ch.sp THEN PlainBreaks(t, k + 1, breaks)
    ELSE IF at(t, k) = LF THEN PlainBreaks(t, k + 1, breaks \o <<LF>>)
    ELSE [spaces |-> breaks, next |-> k]

\* what the white space at i inside a plain scalar stands for, and the place
\* after it: a line break folds to a space, more line breaks to one fewer
scan_plain_spaces(t, i) ==
    LET k == SkipSpaces(t, i)
    IN  IF at(t, k) = LF
        THEN LET r == PlainBreaks(t, k + 1, <<>>)
             IN  [spaces |-> IF r.spaces = <<>> THEN <<Ch.sp>> ELSE r.spaces,
                  next |-> r.next]
        ELSE [spaces |-> SubSeq(t, i, k - 1), next |-> k]

RECURSIVE PlainChunks(_, _, _, _, _, _)
PlainChunks(t, indent, i, out, spaces, end) ==
    LET Chunk(j) ==
            LET Spaced(more, sp) ==
                    IF \/ sp.spaces = <<>>
                       \/ at(t, sp.next) = Ch.hash
                       \/ col(t, sp.next) < indent + 1
                    THEN [text |-> more, end |-> j]
                    ELSE PlainChunks(t, indent, sp.next, more, sp.spaces, j)
            IN  IF j = i THEN [text |-> out, end |-> end]
                ELSE Spaced(out \o spaces \o SubSeq(t, i, j - 1),
                            scan_plain_spaces(t, j))
    IN  Chunk(ChunkEnd(t, i))

scan_plain(t, i, indent) ==
    LET Found(r) ==
            Scalar(r.text, TRUE, r.end, LineStart(t, r.end) # LineStart(t, i))
    IN  Found(PlainChunks(t, indent, i, <<>>, <<>>, i))

\* ESCAPE_REPLACEMENTS of the scanner, the letter after the backslash to the
\* code point
Unescapes ==
    (48 :> 0) @@ (97 :> 7) @@ (98 :> 8) @@ (116 :> 9) @@ (9 :> 9)
    @@ (110 :> 10) @@ (118 :> 11) @@ (102 :> 12) @@ (114 :> 13) @@ (101 :> 27)
    @@ (32 :> 32) @@ (34 :> 34) @@ (47 :> 47) @@ (92 :> 92) @@ (78 :> 133)
    @@ (95 :> 160) @@ (76 :> 8232) @@ (80 :> 8233)

\* the number of hexadecimal digits after \x, \u and \U
EscapeWidths == (120 :> 2) @@ (117 :> 4) @@ (85 :> 8)

RECURSIVE FlowBreaks(_, _, _)
FlowBreaks(t, i, breaks) ==
    LET k == SkipSpaces(t, i)
    IN  IF at(t, k) = LF THEN FlowBreaks(t, k + 1, breaks \o <<LF>>)
        ELSE [breaks |-> breaks, next |-> k]

\* the rest of a quoted scalar from i on; q is the quote
RECURSIVE QuotedRest(_, _, _, _, _)
QuotedRest(t, q, first, i, out) ==
    LET c == at(t, i)
    IN  IF c = Ch.nul THEN NoScalar("YAMLError")
        ELSE IF c = q
             THEN IF q = Ch.sq /\ at(t, i + 1) = Ch.sq
                  THEN QuotedRest(t, q, first, i + 2, out \o <<Ch.sq>>)
                  ELSE Scalar(out, FALSE, i + 1, LineStart(t, i + 1) # first)
        ELSE IF c = Ch.bslash /\ q = Ch.dq
             THEN LET e == at(t, i + 1)
                  IN  IF e \in DOMAIN Unescapes
                      THEN QuotedRest(t, q, first, i + 2, out \o <<Unescapes[e]>>)
                      ELSE IF e \in DOMAIN EscapeWidths
                           THEN LET w == EscapeWidths[e]
                                IN  IF i + 1 + w <= Len(t)
                                       /\ InAll(SubSeq(t, i + 2, i + 1 + w), HexDigits)
                                    THEN QuotedRest(t, q, first, i + 2 + w,
                                             out \o <<ValueIn(SubSeq(t, i + 2, i + 1 + w), 16, 0)>>)
                                    ELSE NoScalar("YAMLError")
                      ELSE IF e = LF
                           THEN LET r == FlowBreaks(t, i + 2, <<>>)
                                IN  QuotedRest(t, q, first, r.next, out \o r.breaks)
                      ELSE NoScalar("YAMLError")
        ELSE IF c \in {Ch.sp, LF}
             THEN LET k == SkipSpaces(t, i)
                  IN  IF at(t, k) = Ch.nul THEN NoScalar("YAMLError")
                      ELSE IF at(t, k) = LF
                           THEN LET r == FlowBreaks(t, k + 1, <<>>)
                                IN  QuotedRest(t, q, first, r.next,
                                        out \o (IF r.breaks = <<>> THEN <<Ch.sp>>
                                                ELSE r.breaks))
                      ELSE QuotedRest(t, q, first, k, out \o SubSeq(t, i, k - 1))
        ELSE QuotedRest(t, q, first, i + 1, out \o <<c>>)

scan_flow_scalar(t, i) == QuotedRest(t, t[i], LineStart(t, i), i + 1, <<>>)

\* -?:,[]{}#&*!|>'"%@` and white space cannot start a plain scalar, but "-",
\* "?" and ":" can when no white space follows them
plain_start(t, i) ==
    \/ at(t, i) \notin {Ch.nul, Ch.sp, LF, Ch.minus, Ch.qm, Ch.colon} \cup Indicators
    \/ at(t, i) \in {Ch.minus, Ch.qm, Ch.colon} /\ ~ws(t, i + 1)

\* the scalar, "{}" or "[]" at i: [err, leaf, text, plain, end, multi]
scan_leaf(t, i, indent) ==
    IF at(t, i) = Ch.lbrace /\ at(t, i + 1) = Ch.rbrace
    THEN [Scalar(<<>>, FALSE, i + 2, FALSE) EXCEPT !.leaf = Dict(<<>>)]
    ELSE IF at(t, i) = Ch.lbracket /\ at(t, i + 1) = Ch.rbracket
         THEN [Scalar(<<>>, FALSE, i + 2, FALSE) EXCEPT !.leaf = List(<<>>)]
    ELSE IF at(t, i) \in (Indicators \ {Ch.hash, Ch.sq, Ch.dq})
         THEN NoScalar("beyond")
    ELSE IF at(t, i) \in {Ch.sq, Ch.dq} THEN scan_flow_scalar(t, i)
    ELSE IF plain_start(t, i) THEN scan_plain(t, i, indent)
    ELSE NoScalar("YAMLError")

\* the value of a leaf: [err, val]
leaf_value(tok) ==
    IF IsNone(tok.leaf) THEN construct_scalar(tok.text, tok.plain)
    ELSE [err |-> "none", val |-> tok.leaf]

value_mark(t, i) == at(t, i) = Ch.colon /\ ws(t, i + 1)

entry_mark(t, i) == at(t, i) = Ch.minus /\ ws(t, i + 1)

key_mark(t, i) == at(t, i) = Ch.qm /\ ws(t, i + 1)

\* the token at k, after a node that ended at j, is on a line of its own
line_ended(t, j, k) == k > Len(t) \/ \E x \in j..(k - 1) : t[x] = LF

Node(v, j) == [err |-> "none", val |-> v, end |-> j]

NoNode(e) == [err |-> e, val |-> NoValue, end |-> 0]

Entry(k, v, j) == [err |-> "none", key |-> k, val |-> v, end |-> j]

NoEntry(e) == [err |-> e, key |-> NoValue, val |-> NoValue, end |-> 0]

RECURSIVE parse_node(_, _, _, _)
RECURSIVE parse_value(_, _, _, _)
RECURSIVE parse_sequence(_, _, _, _)
RECURSIVE parse_mapping(_, _, _, _)
RECURSIVE parse_mapping_value(_, _, _, _)
RECURSIVE explicit_entry(_, _, _)
RECURSIVE simple_entry(_, _, _)

\* the node whose first token is at i, inside a block collection at column
\* indent (-1: none); block: a block collection may start here
parse_node(t, i, indent, block) ==
    LET Valued(v, j) == IF v.err # "none" THEN NoNode(v.err) ELSE Node(v.val, j)
        Leaf(tok) ==
            IF tok.err # "none" THEN NoNode(tok.err)
            ELSE IF value_mark(t, SkipSpaces(t, tok.end))
                 THEN IF block /\ ~tok.multi
                      THEN parse_mapping(t, i, col(t, i), <<>>)
                      ELSE NoNode("YAMLError")
            ELSE Valued(leaf_value(tok), tok.end)
    IN  IF entry_mark(t, i)
        THEN IF block THEN parse_sequence(t, i, col(t, i), <<>>)
             ELSE NoNode("YAMLError")
        ELSE IF key_mark(t, i)
             THEN IF block THEN parse_mapping(t, i, col(t, i), <<>>)
                  ELSE NoNode("YAMLError")
        ELSE Leaf(scan_leaf(t, i, indent))

\* the value after the indicator that ends before i, in a collection at
\* column c: the node on the same line, or the one on the following lines
\* when it is indented more than c, or None
parse_value(t, i, c, block) ==
    LET At(k) ==
            IF k > Len(t) THEN Node(NoValue, k)
            ELSE IF LineStart(t, k) = LineStart(t, i) THEN parse_node(t, k, c, block)
            ELSE IF col(t, k) > c THEN parse_node(t, k, c, TRUE)
            ELSE Node(NoValue, i)
    IN  At(scan_to_next_token(t, i))

\* the block sequence at column c whose next "-" is at i
parse_sequence(t, i, c, items) ==
    LET Next(r, k) ==
            IF ~line_ended(t, r.end, k) THEN NoNode("YAMLError")
            ELSE IF k <= Len(t) /\ col(t, k) = c /\ entry_mark(t, k)
                 THEN parse_sequence(t, k, c, Append(items, r.val))
            ELSE Node(List(Append(items, r.val)), r.end)
        Item(r) ==
            IF r.err # "none" THEN NoNode(r.err)
            ELSE Next(r, scan_to_next_token(t, r.end))
    IN  Item(parse_value(t, i + 1, c, TRUE))

\* "? key" and, at the same column, ": value"
explicit_entry(t, i, c) ==
    LET Valued(key, v) ==
            IF v.err # "none" THEN NoEntry(v.err) ELSE Entry(key.val, v.val, v.end)
        Value(key, k) ==
            IF ~line_ended(t, key.end, k) THEN NoEntry("YAMLError")
            ELSE IF k <= Len(t) /\ col(t, k) = c /\ value_mark(t, k)
                 THEN Valued(key, parse_mapping_value(t, k + 1, c, TRUE))
            ELSE Entry(key.val, NoValue, key.end)
        Key(key) ==
            IF key.err # "none" THEN NoEntry(key.err)
            ELSE Value(key, scan_to_next_token(t, key.end))
    IN  Key(parse_value(t, i + 1, c, TRUE))

\* "key: value", the key on one line
simple_entry(t, i, c) ==
    LET Valued(key, v) ==
            IF key.err # "none" THEN NoEntry(key.err)
            ELSE IF v.err # "none" THEN NoEntry(v.err)
            ELSE Entry(key.val, v.val, v.end)
        Value(tok, k) ==
            IF ~value_mark(t, k) \/ tok.multi THEN NoEntry("YAMLError")
            ELSE Valued(leaf_value(tok), parse_mapping_value(t, k + 1, c, FALSE))
        Key(tok) ==
            IF tok.err # "none" THEN NoEntry(tok.err)
            ELSE Value(tok, SkipSpaces(t, tok.end))
    IN  Key(scan_leaf(t, i, c))

\* the block mapping at column c whose next key is at i; a list or a dict
\* is no key (unhashable), a later value of a key replaces the earlier
parse_mapping(t, i, c, pairs) ==
    LET Next(entry, more, k) ==
            IF ~line_ended(t, entry.end, k) THEN NoNode("YAMLError")
            ELSE IF k <= Len(t) /\ col(t, k) = c
                 THEN IF entry_mark(t, k) THEN NoNode("YAMLError")
                      ELSE parse_mapping(t, k, c, more)
            ELSE Node(Dict(more), entry.end)
        Pair(entry) ==
            IF entry.err # "none" THEN NoNode(entry.err)
            ELSE IF ~IsScalar(entry.key) THEN NoNode("YAMLError")
            ELSE Next(entry, SetItem(pairs, entry.key, entry.val),
                      scan_to_next_token(t, entry.end))
    IN  IF key_mark(t, i) THEN Pair(explicit_entry(t, i, c))
        ELSE Pair(simple_entry(t, i, c))

\* the value of a key of a mapping at column c: a block sequence may start
\* at column c on the next line
parse_mapping_value(t, i, c, block) ==
    LET At(k) ==
            IF /\ k <= Len(t) /\ LineStart(t, k) # LineStart(t, i)
               /\ col(t, k) = c /\ entry_mark(t, k)
            THEN parse_sequence(t, k, c, <<>>)
            ELSE parse_value(t, i, c, block)
    IN  At(scan_to_next_token(t, i))

\* the characters the reader accepts
printable(c) ==
    \/ c \in {9, 10, 13, 133}
    \/ c >= 32 /\ c <= 126
    \/ c >= 160 /\ c <= 55295
    \/ c >= 57344 /\ c <= 65533
    \/ c >= 65536

\* [err, val]: the value of the one document of text (None when it has no
\* node), or "YAMLError" (or ValueError), or "beyond"
safe_load(t) ==
    LET Document(r) ==
            IF r.err # "none" THEN r
            ELSE IF scan_to_next_token(t, r.end) <= Len(t) THEN NoNode("YAMLError")
            ELSE r
        First(i) ==
            IF i > Len(t) THEN Node(NoValue, i)
            ELSE Document(parse_node(t, i, -1, TRUE))
    IN  IF \E i \in 1..Len(t) : ~printable(t[i]) THEN NoNode("YAMLError")
        ELSE IF \/ \E i \in 1..Len(t) : t[i] \in {9, 13, 133, 8232, 8233, 65279}
                \/ \E i \in 1..Len(t) : marker(t, i)
             THEN NoNode("beyond")
        ELSE First(scan_to_next_token(t, 1))

----------------------------------------------------------------------------
(* YamlUtils *)

load_yaml_file(f, file_path) ==
    LET Loaded(data) ==
            IF data.err # "none" THEN Return(f, Dict(<<>>))
            ELSE IF IsNone(data.val) THEN Return(f, Dict(<<>>))
            ELSE Return(f, data.val)
        Read(content) ==
            IF ~content.res.ok THEN content
            ELSE IF content.res.val.str = <<>> THEN Return(f, Dict(<<>>))
            ELSE Loaded(safe_load(content.res.val.str))
    IN  Read(read_file(f, file_path, FALSE))

\* write_yaml_file without its call of FileUtils.write_file
write_yaml_file_unwritten(f, file_path, data) ==
    IF safe_dump(data).ok THEN Return(f, True) ELSE Return(f, False)

write_yaml_file(f, file_path, data) ==
    LET Written(written) ==
            IF ~written.res.ok THEN written
            ELSE IF written.res.val = True THEN written
            ELSE Return(written.fs, False)
        Dumped(yaml_content) ==
            IF ~yaml_content.ok THEN Return(f, False)
            ELSE Written(write_file(f, file_path, Str(yaml_content.text),
                                    FALSE, None, None))
    IN  Dumped(safe_dump(data))

----------------------------------------------------------------------------
(* The state machine: one action per function of the library.  A call is  *)
(* atomic here; its inputs are drawn from the sets below.                  *)

\* the str "x" and the bytes b"y"
X == Str(<<120>>)

Y == Bytes(<<121>>)

ModeArgs == {None, Some(Octal(6, 4, 4)), Some(Octal(3, 0, 0))}

UserArgs == {None, Some("me"), Some("ghost")}


ContentArgs == {X, Y}

Orders == {<<"a", "b">>, <<"b", "a">>}

Hosts == [privileged : BOOLEAN, encoding : {"utf-8"}, order : Orders]

Idle == [op |-> "none", args |-> <<>>, res |-> Return(EmptyFS, NoValue).res]

Callers == {1, 2}

\* a caller's call: at is "idle" before it, "checked" between its existence
\* check and its host primitive, "done" after it; seen is the filesystem the
\* check looked at, before the one its last step started from
NoCall ==
    [op |-> "none", args |-> <<>>, at |-> "idle", seen |-> EmptyFS,
     before |-> EmptyFS, res |-> Idle.res]

NoCalls == [c \in Callers |-> NoCall]

Fits(f) == \A q \in DOMAIN f : Len(q) <= MaxDepth

Call(op, args, out) ==
    /\ Fits(out.fs)
    /\ fs' = out.fs
    /\ pre' = fs
    /\ last' = [op |-> op, args |-> args, res |-> out.res]
    /\ prev' = last
    /\ steps' = steps + 1
    /\ UNCHANGED <<host, calls>>

CreateDirectory ==
    /\ steps < MaxOps
    /\ \E path \in Paths, permissions \in ModeArgs, user \in UserArgs :
           Call("create_directory",
                [path |-> path, permissions |-> permissions, user |-> user],
                create_directory(fs, path, permissions, user))

ListDirectory ==
    /\ steps < MaxOps
    /\ \E path \in Paths, recursive \in BOOLEAN :
           Call("list_directory", [path |-> path, recursive |-> recursive],
                list_directory(fs, path, recursive))

RemoveDirectory ==
    /\ steps < MaxOps
    /\ \E path \in Paths :
           Call("remove_directory", [path |-> path], remove_directory(fs, path))

RenameDirectory ==
    /\ steps < MaxOps
    /\ \E src \in Paths, dst \in Paths :
           Call("rename_directory", [src |-> src, dst |-> dst],
                rename_directory(fs, src, dst))

MoveDirectory ==
    /\ steps < MaxOps
    /\ \E src \in Paths, dst \in Paths :
           Call("move_directory", [src |-> src, dst |-> dst],
                move_directory(fs, src, dst))

CopyDirectory ==
    /\ steps < MaxOps
    /\ \E src \in Paths, dst \in Paths :
           Call("copy_directory", [src |-> src, dst |-> dst],
                copy_directory(fs, src, dst))

WriteFileOf(paths, contents, modes, users) ==
    /\ steps < MaxOps
    /\ \E path \in paths, content \in contents, binary \in BOOLEAN,
       permissions \in modes, user \in users :
           Call("write_file",
                [path |-> path, content |-> content, binary |-> binary,
                 permissions |-> permissions, user |-> user],
                write_file(fs, path, content, binary, permissions, user))

WriteFile == WriteFileOf(Paths, ContentArgs, ModeArgs, UserArgs)

ReadFileOf(paths) ==
    /\ steps < MaxOps
    /\ \E path \in paths, binary \in BOOLEAN :
           Call("read_file", [path |-> path, binary |-> binary],
                read_file(fs, path, binary))

ReadFile == ReadFileOf(Paths)

RemoveFile ==
    /\ steps < MaxOps
    /\ \E path \in Paths :
           Call("remove_file", [path |-> path], remove_file(fs, path))

RenameFile ==
    /\ steps < MaxOps
    /\ \E src \in Paths, dst \in Paths :
           Call("rename_file", [src |-> src, dst |-> dst], rename_file(fs, src, dst))

MoveFile ==
    /\ steps < MaxOps
    /\ \E src \in Paths, dst \in Paths :
           Call("move_file", [src |-> src, dst |-> dst], move_file(fs, src, dst))

CopyFile ==
    /\ steps < MaxOps
    /\ \E src \in Paths, dst \in Paths :
           Call("copy_file", [src |-> src, dst |-> dst], copy_file(fs, src, dst))

(* The filesystem the first call finds is one the library itself built: *)
(* each tree below is the outcome of a script of calls on the              *)
(* empty working directory.                                                *)

Mk(path, permissions) ==
    [op |-> "create_directory", path |-> path, permissions |-> permissions]

Wr(path, content, permissions) ==
    [op |-> "write_file", path |-> path, content |-> content,
     permissions |-> permissions]

RunOne(f, c) ==
    IF c.op = "create_directory"
    THEN create_directory(f, c.path, c.permissions, None).fs
    ELSE write_file(f, c.path, c.content, IsBytes(c.content),
                    c.permissions, None).fs

RECURSIVE Run(_, _)
Run(f, script) ==
    IF script = <<>> THEN f
    ELSE CHOOSE r \in {Run(g, Tail(script)) : g \in {RunOne(f, Head(script))}} : TRUE

Scripts ==
    { <<>>,
      \* a plain tree: a/a, a/b/a and the file b
      << Wr(<<"a", "a">>, X, None), Wr(<<"a", "b", "a">>, Y, None),
         Wr(<<"b">>, X, None) >>,
      \* two populated directories and an empty one
      << Wr(<<"a", "a">>, X, None), Wr(<<"b", "a">>, Y, None),
         Mk(<<"b", "b">>, None), Wr(<<"a", "b">>, Y, None) >>,
      \* a/b may be entered and written but not enumerated
      << Mk(<<"a", "b">>, Some(Octal(3, 0, 0))), Wr(<<"a", "b", "a">>, Y, None),
         Wr(<<"a", "a">>, X, None), Mk(<<"b">>, None) >>,
      \* a may be enumerated but not entered; b/a may not be read
      << Mk(<<"b">>, None), Wr(<<"b", "a">>, X, Some(Octal(3, 0, 0))),
         Mk(<<"a">>, Some(Octal(6, 4, 4))) >>,
      \* a was created for a file written with mode 0o644
      << Wr(<<"b", "b", "a">>, X, None),
         Wr(<<"a", "b">>, X, Some(Octal(6, 4, 4))) >>,
      \* b is read-only, with content
      << Wr(<<"b", "a">>, X, None), Mk(<<"b", "b">>, Some(Octal(5, 5, 5))),
         Wr(<<"a">>, Y, None) >>
    }

Seeds == {Run(EmptyFS, script) : script \in Scripts}

Init ==
    /\ host \in Hosts
    /\ fs \in Seeds
    /\ pre = fs
    /\ last = Idle
    /\ prev = Idle
    /\ calls = NoCalls
    /\ steps = 0

Next ==
    \/ CreateDirectory
    \/ ListDirectory
    \/ RemoveDirectory
    \/ RenameDirectory
    \/ MoveDirectory
    \/ CopyDirectory
    \/ WriteFile
    \/ ReadFile
    \/ RemoveFile
    \/ RenameFile
    \/ MoveFile
    \/ CopyFile

Spec == Init /\ [][Next]_vars

----------------------------------------------------------------------------
(* Content in and out of one file: write_file and read_file on every short *)
(* str and bytes over a few code points and byte values, on hosts whose    *)
(* locale encoding is UTF-8 or Latin-1, the file absent or present before. *)

\* "\n", "\r", "a", U+00E9
CodePoints == {LF, CR, 97, 233}

\* "\n", "\r", "a", and the two bytes of U+00E9 in UTF-8
ByteValues == {LF, CR, 97, 195, 169}

SeqsUpTo(S, n) == UNION {[1..k -> S] : k \in 0..n}

Texts == {Str(s) : s \in SeqsUpTo(CodePoints, MaxLen)}

Blobs == {Bytes(s) : s \in SeqsUpTo(ByteValues, MaxLen)}

CodecPath == <<"a">>

\* what the file held before: nothing, bytes that are no UTF-8, and more
\* bytes than any content written here has
OldContents == {<<>>, <<233>>, [i \in 1..(MaxLen + 2) |-> 97]}

CodecSeeds ==
    {EmptyFS} \cup {Run(EmptyFS, <<Wr(CodecPath, Bytes(old), None)>>) :
                       old \in OldContents}

CodecHosts ==
    [privileged : {FALSE}, encoding : {"utf-8", "latin-1"}, order : {<<"a", "b">>}]

InitCodec ==
    /\ host \in CodecHosts
    /\ fs \in CodecSeeds
    /\ pre = fs
    /\ last = Idle
    /\ prev = Idle
    /\ calls = NoCalls
    /\ steps = 0

WriteContent == WriteFileOf({CodecPath}, Texts \cup Blobs, {None}, {None})

ReadContent == ReadFileOf({CodecPath})

NextCodec == WriteContent \/ ReadContent

SpecCodec == InitCodec /\ [][NextCodec]_vars

----------------------------------------------------------------------------
(* Mappings in and out of one file: write_yaml_file and load_yaml_file on  *)
(* mappings of every short string and of nested shapes, the file absent,   *)
(* a directory, or holding a document of some kind already.                *)

MaxText == 2

\* "\n", "\r", " ", "#", "'", "-", "1", ":", "a", U+00E9
YamlChars == {LF, CR, 32, 35, 39, 45, 49, 58, 97, 233}

\* null, ~, true, no, 1:1, 0x1_, 017, "a: a", "a #a", "- a", "a\n\na", "---", "{}"
Words ==
    { <<110, 117, 108, 108>>, <<126>>, <<116, 114, 117, 101>>, <<110, 111>>,
      <<49, 58, 49>>, <<48, 120, 49, 95>>, <<48, 49, 55>>,
      <<97, 58, 32, 97>>, <<97, 32, 35, 97>>, <<45, 32, 97>>,
      <<97, LF, LF, 97>>, <<45, 45, 45>>, <<123, 125>> }

Strings == {Str(s) : s \in SeqsUpTo(YamlChars, MaxText) \cup Words}

Atoms == {NoValue, True, False, Integer(0), Integer(1), Integer(-1), Integer(12)} \cup Strings

A == Str(<<97>>)

\* None, True, 1, "a", "", "1", "a\na"
Leaves == {NoValue, True, Integer(1), A, Str(<<>>), Str(<<49>>), Str(<<97, LF, 97>>)}

Few == {NoValue, A, Str(<<>>)}

Lists(S, n) == {List(s) : s \in SeqsUpTo(S, n)}

\* the dicts of up to n entries with keys of K and values of S
Dicts(K, S, n) ==
    {Dict(s) : s \in {s \in SeqsUpTo(K \X S, n) :
                         \A i, j \in 1..Len(s) : i # j => ~PyEq(s[i][1], s[j][1])}}

Level1 == Leaves \cup Lists(Few, 2) \cup Dicts({A, Str(<<>>)}, Few, 2)

Level2 ==
    Level1 \cup Lists(Level1, 1) \cup Dicts({A, Str(<<>>), Integer(1)}, Level1, 1)

KeyPairs ==
    {p \in {A, Str(<<49>>), True, NoValue} \X {A, Str(<<49>>), True, NoValue} :
        p[1] # p[2]}

Mappings ==
    {Dict(<< <<k, Integer(1)>> >>) : k \in Atoms}
    \cup {Dict(<< <<A, v>> >>) : v \in Atoms}
    \cup {Dict(<< <<A, List(<<v, v>>)>> >>) : v \in Strings}
    \cup {Dict(<< <<v, Dict(<< <<v, v>> >>)>> >>) : v \in Strings}
    \cup Dicts({A, Str(<<>>), Str(<<97, LF, 97>>), Integer(1), NoValue}, Level2, 1)
    \cup {Dict(<< <<p[1], v>>, <<p[2], w>> >>) :
             p \in KeyPairs, v \in Level1, w \in Few}
    \cup {Dict(<< <<A, Object("set")>> >>)}

YamlPath == <<"a">>

\* a mapping, a sequence, a scalar, a null document, a comment, text that is
\* no YAML, a mapping with a key twice; as str
Documents ==
    { <<97, 58, 32, 49, LF>>, <<45, 32, 97, LF>>, <<97, LF>>, <<126, LF>>,
      <<35, 97, LF>>, <<97, 58, 32, 97, 58, 32, 97, LF>>,
      <<97, 58, 32, 49, LF, 97, 58, LF>> }

YamlSeeds ==
    {EmptyFS, Run(EmptyFS, <<Mk(YamlPath, None)>>),
     Run(EmptyFS, <<Wr(YamlPath, Str(<<>>), None)>>)}
    \cup {Run(EmptyFS, <<Wr(YamlPath, Str(d), None)>>) : d \in Documents}

InitYaml ==
    /\ host \in CodecHosts
    /\ fs \in YamlSeeds
    /\ pre = fs
    /\ last = Idle
    /\ prev = Idle
    /\ calls = NoCalls
    /\ steps = 0

WriteYamlFile ==
    /\ steps < MaxOps
    /\ \E data \in Mappings :
           Call("write_yaml_file", [path |-> YamlPath, data |-> data],
                write_yaml_file(fs, YamlPath, data))

\* a load changes nothing, so one may follow the last of the calls
LoadYamlFile ==
    /\ steps <= MaxOps
    /\ Call("load_yaml_file", [path |-> YamlPath], load_yaml_file(fs, YamlPath))

NextYaml == WriteYamlFile \/ LoadYamlFile

SpecYaml == InitYaml /\ [][NextYaml]_vars

----------------------------------------------------------------------------
(* Two callers on one filesystem.  A call of rename_file or of             *)
(* create_directory takes two steps here, its existence check and its try  *)
(* block, and the steps of the two callers interleave in every order;      *)
(* write_file is one step.  Each caller makes one call.                    *)

MaxRaceDepth == 2  \* longest path of a concurrent call, in segments

RacePaths == PathsUpTo(MaxRaceDepth)

RaceSeeds ==
    {EmptyFS,
     Run(EmptyFS, <<Wr(<<"b">>, X, None)>>),
     Run(EmptyFS, <<Wr(<<"a", "a">>, X, None), Wr(<<"b">>, Y, None)>>),
     Run(EmptyFS, <<Mk(<<"a">>, Some(Octal(5, 5, 5))), Wr(<<"b">>, X, None)>>)}

RaceHosts == [privileged : BOOLEAN, encoding : {"utf-8"}, order : {<<"a", "b">>}]

InitRace ==
    /\ host \in RaceHosts
    /\ fs \in RaceSeeds
    /\ pre = fs
    /\ last = Idle
    /\ prev = Idle
    /\ calls = NoCalls
    /\ steps = 0

\* caller c's call moves on to call, on the filesystem f; a call that
\* ended is the last call
Advance(c, call, f) ==
    /\ Fits(f)
    /\ fs' = f
    /\ calls' = [calls EXCEPT ![c] = call]
    /\ IF call.at = "done"
       THEN /\ pre' = fs
            /\ last' = [op |-> call.op, args |-> call.args, res |-> call.res]
            /\ prev' = last
            /\ steps' = steps + 1
       ELSE UNCHANGED <<pre, last, prev, steps>>
    /\ UNCHANGED host

\* the existence check of a call: it ends the call unless it returns None
Check(c, op, args, check) ==
    Advance(c, [op |-> op, args |-> args,
                at |-> IF check.res.ok /\ check.res.val = NoValue
                       THEN "checked" ELSE "done",
                seen |-> fs, before |-> fs, res |-> check.res],
            fs)

\* the try block of a call that passed its check
Try(c, out) ==
    Advance(c, [calls[c] EXCEPT !.at = "done", !.before = fs, !.res = out.res],
            out.fs)

\* a call in one step
AtOnce(c, op, args, out) ==
    Advance(c, [op |-> op, args |-> args, at |-> "done", seen |-> fs,
                before |-> fs, res |-> out.res],
            out.fs)

RenameFileCheck(c) ==
    /\ calls[c].at = "idle"
    /\ \E src \in RacePaths, dst \in RacePaths :
           Check(c, "rename_file", [src |-> src, dst |-> dst],
                 rename_file_check(fs, src, dst))

RenameFileRename(c) ==
    /\ calls[c].at = "checked"
    /\ calls[c].op = "rename_file"
    /\ Try(c, rename_file_rename(fs, calls[c].args.src, calls[c].args.dst))

CreateDirectoryCheck(c) ==
    /\ calls[c].at = "idle"
    /\ \E path \in RacePaths :
           Check(c, "create_directory",
                 [path |-> path, permissions |-> None, user |-> None],
                 create_directory_check(fs, path))

CreateDirectoryMake(c) ==
    /\ calls[c].at = "checked"
    /\ calls[c].op = "create_directory"
    /\ Try(c, create_directory_make(fs, calls[c].args.path,
                                    calls[c].args.permissions,
                                    calls[c].args.user))

WriteFileAtOnce(c) ==
    /\ calls[c].at = "idle"
    /\ \E path \in RacePaths, content \in ContentArgs :
           AtOnce(c, "write_file",
                  [path |-> path, content |-> content,
                   binary |-> IsBytes(content), permissions |-> None,
                   user |-> None],
                  write_file(fs, path, content, IsBytes(content), None, None))

NextRace ==
    \E c \in Callers :
        \/ RenameFileCheck(c)
        \/ RenameFileRename(c)
        \/ CreateDirectoryCheck(c)
        \/ CreateDirectoryMake(c)
        \/ WriteFileAtOnce(c)

SpecRace == InitRace /\ [][NextRace]_vars

----------------------------------------------------------------------------
(* Properties of the directory and file operations *)

Called(op) == last.op = op

Raised(code) == ~last.res.ok /\ last.res.code = code

Returned(v) == last.res.ok /\ last.res.val = v

Ancestors(p) == {SubSeq(p, 1, i) : i \in 1..(Len(p) - 1)}

FilesBelow(f, d) == {q \in Subtree(f, d) : q # d /\ f[q].kind = "file"}

Range(seq) == {seq[i] : i \in 1..Len(seq)}

\* the mode grants its owner the right
GrantsOwner(mode, right) == ((mode \div 64) \div BitOf(right)) % 2 = 1

\* nothing in f is closed to the calling process
Permissive(f) ==
    \A q \in DOMAIN f :
        /\ Access(f[q], "r") /\ Access(f[q], "w")
        /\ f[q].kind = "dir" => Access(f[q], "x")

\* C1 (as claimed): write_file(p, c) followed by read_file(p) in the same
\* mode returns exactly c, whatever p held before -- here with c a str in
\* text mode and a bytes object in binary mode, on a host whose locale
\* encoding is UTF-8.
C1_WriteReadRoundTrip ==
    (Called("write_file") /\ Returned(True) /\ host.encoding = "utf-8"
        /\ (last.args.binary <=> IsBytes(last.args.content)))
    => LET back == read_file(fs, last.args.path, last.args.binary).res
       IN  back.ok /\ back.val = last.args.content

\* C2 (as claimed): load_yaml_file(p) on a path p where nothing exists
\* returns the empty mapping and raises nothing.
C2_LoadMissingIsEmpty ==
    (Called("load_yaml_file") /\ ~Has(pre, last.args.path))
    => Returned(Dict(<<>>))

\* C3: rename_directory(src, dst) of a directory src onto a dst that is
\* already a directory raises DIRECTORY_ALREADY_EXISTS and changes nothing:
\* src and dst keep the trees and contents they had.
C3_RenameOntoDirectoryRefused ==
    (Called("rename_directory") /\ isdir(pre, last.args.src)
        /\ isdir(pre, last.args.dst))
    => (Raised("DIRECTORY_ALREADY_EXISTS") /\ fs = pre)

\* a populated directory was to be renamed onto another, populated or empty
C3_Witness ==
    /\ Called("rename_directory")
    /\ last.args.src # last.args.dst
    /\ isdir(pre, last.args.src) /\ Children(pre, last.args.src) # {}
    /\ isdir(pre, last.args.dst) /\ Children(pre, last.args.dst) = {}
    /\ Raised("DIRECTORY_ALREADY_EXISTS")

\* C4: remove_file of a path that is no existing file raises FILE_NOT_FOUND,
\* remove_directory of a path that is no existing directory raises
\* DIRECTORY_NOT_FOUND, and neither removes anything.
C4_RemoveMissingIsNotFound ==
    /\ (Called("remove_file") /\ ~isfile(pre, last.args.path))
       => (Raised("FILE_NOT_FOUND") /\ fs = pre)
    /\ (Called("remove_directory") /\ ~isdir(pre, last.args.path))
       => (Raised("DIRECTORY_NOT_FOUND") /\ fs = pre)

\* remove_file was called on a populated directory
C4_Witness ==
    /\ Called("remove_file")
    /\ IsDirNode(pre, last.args.path) /\ Children(pre, last.args.path) # {}
    /\ Raised("FILE_NOT_FOUND")

\* C5: when create_directory(p) returns True, p and every intermediate
\* segment of p are directories, and calling create_directory(p) again, with
\* the same or with no optional arguments, returns True as well.
C5_CreatedDirectoryExists ==
    (Called("create_directory") /\ last.res.ok)
    => /\ Returned(True)
       /\ isdir(fs, last.args.path)
       /\ \A a \in Ancestors(last.args.path) : isdir(fs, a)
       /\ create_directory(fs, last.args.path, last.args.permissions,
                           last.args.user).res.ok
       /\ create_directory(fs, last.args.path, None, None).res.val = True

\* a directory was created together with its missing parent
C5_Witness ==
    /\ Called("create_directory") /\ Returned(True)
    /\ Len(last.args.path) >= 2
    /\ ~Has(pre, dirname(last.args.path))
    /\ IsDirNode(fs, last.args.path)

\* C6 (as claimed): write_file to a path none of whose ancestors exists, with
\* or without permissions (that let the owner read and write) and a (known)
\* user, creates the ancestors, returns True, and read_file returns the file
\* afterwards.
C6_WriteCreatesParents ==
    (Called("write_file") /\ Len(last.args.path) >= 2
        /\ ~Has(pre, SubSeq(last.args.path, 1, 1))
        /\ (last.args.user = None \/ getpwnam(last.args.user[1]))
        /\ (last.args.permissions = None
              \/ (GrantsOwner(last.args.permissions[1], "r")
                  /\ GrantsOwner(last.args.permissions[1], "w")))
        /\ (last.args.binary <=> IsBytes(last.args.content)))
    => /\ Returned(True)
       /\ \A a \in Ancestors(last.args.path) : isdir(fs, a)
       /\ read_file(fs, last.args.path, last.args.binary).res.ok

\* C7 (as claimed): list_directory(p, recursive=True) returns exactly the
\* regular files of the subtree under p, each relative to p, and no
\* directory; list_directory(p) returns exactly the names of p's children.
C7_ListingIsExact ==
    (Called("list_directory") /\ last.res.ok)
    => LET p == last.args.path
       IN  IF last.args.recursive
           THEN Range(last.res.val.list) = {relpath(q, p) : q \in FilesBelow(pre, p)}
           ELSE Range(last.res.val.list) = {basename(q) : q \in Children(pre, p)}

\* C8 (as claimed): after copy_directory(src, dst) returned True, src has
\* exactly the tree and contents it had, and every file of src is at the same
\* relative path in dst with the same content.
C8_CopyLeavesSourceAlone ==
    (Called("copy_directory") /\ Returned(True))
    => LET src == last.args.src
           dst == last.args.dst
       IN  /\ Subtree(fs, src) = Subtree(pre, src)
           /\ \A q \in Subtree(pre, src) : fs[q] = pre[q]
           /\ \A q \in FilesBelow(pre, src) :
                  /\ IsFileNode(fs, dst \o relpath(q, src))
                  /\ fs[dst \o relpath(q, src)].data = pre[q].data

\* a == b for two YAML values of the same types; the order of a dict's pairs
\* does not count
RECURSIVE Equal(_, _)
Equal(a, b) ==
    IF IsDict(a) /\ IsDict(b)
    THEN /\ Len(a.dict) = Len(b.dict)
         /\ \A i \in 1..Len(a.dict) : \E j \in 1..Len(b.dict) :
                /\ a.dict[i][1] = b.dict[j][1]
                /\ Equal(a.dict[i][2], b.dict[j][2])
    ELSE IF IsList(a) /\ IsList(b)
         THEN /\ Len(a.list) = Len(b.list)
              /\ \A i \in 1..Len(a.list) : Equal(a.list[i], b.list[i])
    ELSE a = b

\* FILE_ALREADY_EXISTS whenever anything is present at dst, and then nothing
\* at or under dst is created or changed.
C10_CopyRefusesPresentDestination ==
    (Called("copy_file") /\ Permissive(pre))
    => /\ ~isfile(pre, last.args.src) => Raised("FILE_NOT_FOUND")
       /\ (isfile(pre, last.args.src) /\ Has(pre, last.args.dst))
          => (Raised("FILE_ALREADY_EXISTS") /\ fs = pre)

\* C11 (as claimed): every failure of write_file, be it in the creation of
\* the parent directory, in the normalisation and writing of the content, in
\* chmod or in chown, is a FileUtilsException with the code FILE_WRITE_ERROR
\* whose metadata holds the file path and the binary flag.
C11_WriteFailureIsWriteError ==
    (Called("write_file") /\ ~last.res.ok)
    => /\ last.res.exc = "FileUtilsException"
       /\ last.res.code = "FILE_WRITE_ERROR"
       /\ last.res.meta = {"file_path", "binary"}

\* a directory of the subtree under p, p included, cannot be enumerated
Unlistable(f, p) ==
    \E d \in Subtree(f, p) \cup {p} :
        IsDirNode(f, d) /\ ScanErr(f, d) # "ok"

\* C12 (as claimed): list_directory(p, recursive) raises
\* DIRECTORY_LISTING_ERROR whenever the enumeration of p or, in recursive
\* mode, of a directory of the subtree under p fails; no list is returned
\* that leaves out the entries of a directory that could not be enumerated.
C12_ListingErrorAborts ==
    (Called("list_directory") /\ isdir(pre, last.args.path)
        /\ (IF last.args.recursive THEN Unlistable(pre, last.args.path)
            ELSE ScanErr(pre, last.args.path) # "ok"))
    => Raised("DIRECTORY_LISTING_ERROR")

\* C13: create_directory(p, permissions, user) on a p that is a directory
\* already returns True and leaves the filesystem as it was: mode and owner
\* of p stay, whatever permissions and user are given, and nothing is
\* created.
C13_ExistingDirectoryUntouched ==
    (Called("create_directory") /\ isdir(pre, last.args.path))
    => (Returned(True) /\ fs = pre)

\* a directory that exists was to be created with another mode and an owner
C13_Witness ==
    /\ Called("create_directory") /\ isdir(pre, last.args.path)
    /\ last.args.permissions # None /\ last.args.user # None
    /\ pre[last.args.path].mode # last.args.permissions[1]
    /\ Returned(True)
    /\ fs[last.args.path] = pre[last.args.path]

DirectoryOps ==
    {"remove_directory", "rename_directory", "move_directory", "copy_directory"}

FileOps == {"remove_file", "rename_file", "move_file", "copy_file"}

\* the operations that look at dst as well
DstChecked == {"rename_directory", "copy_directory", "rename_file", "copy_file"}

\* the path a call's first existence check is about
SrcOf(args) == IF "src" \in DOMAIN args THEN args.src ELSE args.path

\* the call was refused with the code before any host primitive ran
Refused(code) == Raised(code) /\ last.res.prim = "none" /\ fs = pre

\* C14: remove_directory, rename_directory, move_directory, copy_directory,
\* remove_file, rename_file, move_file and copy_file evaluate their existence
\* checks before the host primitive: a failed check raises the NOT_FOUND or
\* ALREADY_EXISTS code with the primitive not invoked and the filesystem
\* unchanged, and the primitive is invoked only after every check passed.
C14_ChecksBeforeMutation ==
    /\ (last.op \in DirectoryOps /\ ~isdir(pre, SrcOf(last.args)))
       => Refused("DIRECTORY_NOT_FOUND")
    /\ (last.op \in DirectoryOps \cap DstChecked
           /\ isdir(pre, last.args.src) /\ isdir(pre, last.args.dst))
       => Refused("DIRECTORY_ALREADY_EXISTS")
    /\ (last.op \in FileOps /\ ~isfile(pre, SrcOf(last.args)))
       => Refused("FILE_NOT_FOUND")
    /\ (last.op \in FileOps \cap DstChecked
           /\ isfile(pre, last.args.src) /\ isfile(pre, last.args.dst))
       => Refused("FILE_ALREADY_EXISTS")
    /\ (last.op \in DirectoryOps /\ last.res.prim # "none")
       => /\ isdir(pre, SrcOf(last.args))
          /\ last.op \in DstChecked => ~isdir(pre, last.args.dst)
    /\ (last.op \in FileOps /\ last.res.prim # "none")
       => /\ isfile(pre, SrcOf(last.args))
          /\ last.op \in DstChecked => ~isfile(pre, last.args.dst)

\* copy_file of a file onto another file that exists was refused
C14_Witness ==
    /\ Called("copy_file")
    /\ last.args.src # last.args.dst
    /\ isfile(pre, last.args.src) /\ isfile(pre, last.args.dst)
    /\ Raised("FILE_ALREADY_EXISTS") /\ last.res.prim = "none" /\ fs = pre

\* the call ended the way the host move primitive did: its filesystem, and
\* True or the error code
AsMoved(out, code) ==
    /\ fs = out.fs
    /\ IF out.err = "ok" THEN Returned(True) ELSE Raised(code)

\* C16: move_directory and move_file raise the NOT_FOUND code exactly when
\* src is no existing directory (no existing file); with src present they
\* never raise an ALREADY_EXISTS code, whatever is at dst: the outcome is the
\* one of shutil.move, a failure of which is raised as DIRECTORY_MOVE_ERROR
\* (FILE_MOVE_ERROR).
C16_MoveDelegatesToHost ==
    /\ Called("move_directory")
       => /\ Raised("DIRECTORY_NOT_FOUND") <=> ~isdir(pre, last.args.src)
          /\ ~Raised("DIRECTORY_ALREADY_EXISTS")
          /\ isdir(pre, last.args.src)
             => AsMoved(move(pre, last.args.src, last.args.dst),
                        "DIRECTORY_MOVE_ERROR")
    /\ Called("move_file")
       => /\ Raised("FILE_NOT_FOUND") <=> ~isfile(pre, last.args.src)
          /\ ~Raised("FILE_ALREADY_EXISTS")
          /\ isfile(pre, last.args.src)
             => AsMoved(move(pre, last.args.src, last.args.dst),
                        "FILE_MOVE_ERROR")

\* a file was moved onto another file, which it replaced
C16_Witness ==
    /\ Called("move_file") /\ Returned(True)
    /\ last.args.src # last.args.dst
    /\ isfile(pre, last.args.src) /\ isfile(pre, last.args.dst)
    /\ pre[last.args.src].data # pre[last.args.dst].data
    /\ fs[last.args.dst].data = pre[last.args.src].data

\* C17 (as claimed): after move_file(src, dst) or move_directory(src, dst)
\* returned True nothing is at src any more and something is at dst, for
\* every src and dst, src = dst and a dst that is a directory included.
C17_MovedAway ==
    ((Called("move_file") \/ Called("move_directory")) /\ Returned(True))
    => (~Has(fs, last.args.src) /\ Has(fs, last.args.dst))

\* C20 (as claimed): when create_directory(p, permissions, user) raises
\* DIRECTORY_CREATION_ERROR the filesystem is as it was before the call, no
\* directory at p or at a segment of p that was not there, so that the same
\* call made again creates p and applies permissions and owner.
C20_FailedCreationLeavesNothing ==
    (Called("create_directory") /\ Raised("DIRECTORY_CREATION_ERROR"))
    => /\ fs = pre
       /\ create_directory(fs, last.args.path, last.args.permissions,
                           last.args.user).res.prim = "os.makedirs"

\* C19 (as claimed): whenever load_yaml_file returns, the result is a
\* mapping, whatever the file holds: a mapping document, nothing, a null
\* document, text that cannot be parsed, a scalar or a sequence; everything
\* but a mapping document gives the empty mapping.
C19_LoadReturnsMapping ==
    (Called("load_yaml_file") /\ last.res.ok) => IsDict(last.res.val)

\* C15: check and mutation of rename_file are not one step: when another
\* caller creates dst after rename_file's check of dst passed and before its
\* os.rename runs (on directories the caller may modify), the rename goes
\* through all the same: rename_file returns True although dst was there
\* when it ran, src is gone and dst holds what src held.
C15_RenameFileRaces ==
    [][\A c \in Callers :
          (/\ calls[c].op = "rename_file"
           /\ calls[c].at = "checked"
           /\ calls'[c].at = "done"
           /\ isfile(fs, calls[c].args.src)
           /\ isfile(fs, calls[c].args.dst)
           /\ MayModify(fs, dirname(calls[c].args.src))
           /\ MayModify(fs, dirname(calls[c].args.dst)))
          => /\ ~isfile(calls[c].seen, calls[c].args.dst)
             /\ calls'[c].res.ok /\ calls'[c].res.val = True
             /\ ~Has(fs', calls[c].args.src)
             /\ fs'[calls[c].args.dst].data = fs[calls[c].args.src].data]_vars

\* a rename_file returned True over a dst that another caller had written
\* between its check and its rename, and dst lost what was written
C15_Witness ==
    \E c \in Callers :
        /\ calls[c].op = "rename_file" /\ calls[c].at = "done"
        /\ calls[c].res.ok /\ calls[c].res.val = True
        /\ ~Has(calls[c].seen, calls[c].args.dst)
        /\ isfile(calls[c].before, calls[c].args.dst)
        /\ calls[c].before[calls[c].args.dst].data
             # calls[c].before[calls[c].args.src].data
        /\ fs[calls[c].args.dst].data
             = calls[c].before[calls[c].args.src].data

\* C18 (as claimed): create_directory stays idempotent under concurrent
\* callers: two callers running create_directory(p) at the same time on a p
\* that does not exist, each of whom would have returned True alone, both
\* return True in every interleaving and neither raises.
C18_ConcurrentCreateReturnsTrue ==
    (\A c \in Callers :
        /\ calls[c].op = "create_directory" /\ calls[c].at = "done"
        /\ calls[c].args.path = calls[1].args.path
        /\ ~Has(calls[c].seen, calls[c].args.path)
        /\ create_directory(calls[c].seen, calls[c].args.path,
                            None, None).res.ok)
    => \A c \in Callers : calls[c].res.ok /\ calls[c].res.val = True

====
